---- MODULE Spec2Model ----
(***************************************************************************)
(* Verification model of the victoriametrics-importer (vmi) core:          *)
(*   - the task scheduler         (scheduler.go)                           *)
(*   - the HTTP endpoint pool     (http_endpoint_pool.go)                  *)
(*   - the compressor pool        (compressor_pool.go)                     *)
(*   - the rate controller        (rate_controller.go)                     *)
(*   - the buffer pool            (readfile_buf_pool.go)                   *)
(*   - the metrics generators     (gauge, counter, categorical)            *)
(*   - the runner                 (runner.go)                              *)
(* Each component has its own specifications, listed at the end of the     *)
(* module; the variables of the other components stay at their initial     *)
(* value.  Time is in milliseconds.                                        *)
(***************************************************************************)
EXTENDS Integers, Sequences, FiniteSets, TLC

(***************************************************************************)
(* Bounds of the model                                                     *)
(***************************************************************************)
\* number of tasks the client may add to the scheduler
NumTasks == 3
\* scheduler.numWorkers
NumWorkers == 1
\* capacity of taskQ / todoQ, scaled down from SCHEDULER_TASK_Q_LEN /
\* SCHEDULER_TODO_Q_LEN (64) together with the number of tasks
TaskQLen == 1
TodoQLen == 1
\* the scheduler clock stops advancing after this many ticks
MaxTicks == 3
\* how many times Shutdown may be called
MaxShutdownCalls == 2
\* endpoints of the HTTP pool and concurrent SendBuffer callers
NumEndpoints == 2
NumSenders == 2
\* the pool clock stops advancing after this many poll intervals
PoolMaxTicks == 1
\* a SendBuffer call is followed up to this many attempts
MaxAttempts == 3
\* SendBuffer calls, all callers together
MaxCalls == 2
\* length of the buffer given to SendBuffer
MaxBufLen == 2
\* compressors of the compressor pool, capacity of its queue (scaled down
\* from the default 64) and number of QueueBuf calls
NumCompressors == 2
MetricsQueueSize == 2
NumBufs == 4
\* concurrent GetCredit callers, replenish ticks and GetCredit calls counted,
\* and the largest credit asked for
NumClients == 2
MaxCreditTicks == 2
MaxCreditCalls == 3
MaxDesired == 2
\* length of the buffer wrapped by the CreditReader, and Rewind calls
MaxReaderLen == 2
MaxRewinds == 1
\* the task intervals given to NewTask are the multiples of 5 ms from
\* -MaxRawInterval to MaxRawInterval
MaxRawInterval == 75
\* how many times the wall clock may be set back
MaxClockBack == 2
\* goroutines using the buffer pool, buffers they may have allocated, and
\* the largest max_pool_size
NumOwners == 2
MaxBuffers == 3
MaxPoolSize == 2

\* the largest full_metrics_factor
MaxFMF == 3

\* the largest int of the global cycle# counter
MaxCycleInt == 4

\* runs of a metrics generator
MaxRuns == 5

\* the bits of a counter value
CounterBits == 3

\* registered metrics generators
NumGenerators == 2

(***************************************************************************)
(* Generic helpers                                                         *)
(***************************************************************************)
Min(a, b) == IF a <= b THEN a ELSE b

Max(a, b) == IF a >= b THEN a ELSE b

\* how many times x occurs in sequence s
Count(s, x) == Cardinality({i \in 1..Len(s) : s[i] = x})

SeqToSet(s) == {s[i] : i \in 1..Len(s)}

(***************************************************************************)
(*                              SCHEDULER                                  *)
(***************************************************************************)
SCHEDULER_GRANULARITY == 20

SCHEDULER_TASK_MIN_EXECUTION_PAUSE == 2 * SCHEDULER_GRANULARITY

\* the interval task t is created with (NewTask); CompliantTaskInterval makes
\* them 40 and 60
RawInterval(t) == IF t % 2 = 1 THEN 30 ELSE 50

TaskIds == 1..NumTasks

Workers == 1..NumWorkers

\* the nil *Task
NoTask == 0

MaxNow == MaxTicks * SCHEDULER_GRANULARITY

VARIABLES
    state,        \* scheduler.state: "Created", "Running", "Stopped"
    tasks,        \* scheduler.tasks: the next task heap, as an array of ids
    taskQ,        \* scheduler.taskQ
    todoQ,        \* scheduler.todoQ
    task,         \* the Task structs, by id
    stats,        \* scheduler.stats
    now,          \* the clock
    cancelled,    \* scheduler.ctx is done
    dispatcher,   \* dispatcherLoop goroutine: position and locals
    worker,       \* workerLoop goroutines: position and locals
    added,        \* the tasks AddNewTask was called for
    stopped,      \* the tasks whose action returned false
    sdWaiting,    \* a Shutdown caller is in wg.Wait()
    sdCalls       \* number of Shutdown calls so far

VARIABLES
    healthy,      \* epPool.healthy: head and tail of the doubly linked list
    endpoint,     \* the HttpEndpoint structs, by id
    epPool,       \* the other fields of HttpEndpointPool
    poolStats,    \* epPool.stats.PoolStats
    poolNow,      \* the clock of the pool
    sender,       \* the SendBuffer callers: position and locals
    probes,       \* number of HealthCheck goroutines, by endpoint
    poolSd        \* Shutdown in wg.Wait(), and the SendBuffer calls so far

poolVars == <<healthy, endpoint, epPool, poolStats, poolNow, sender,
              probes, poolSd>>

schedVars == <<state, tasks, taskQ, todoQ, task, stats, now, cancelled,
               dispatcher, worker, added, stopped, sdWaiting, sdCalls>>

VARIABLES
    compPool,     \* CompressorPool: state, flushInterval, Shutdown in wg.Wait()
    metricsQueue, \* pool.metricsQueue: the buffers on it, and whether closed
    comp,         \* the locals of loop(), by compressor
    compStats,    \* pool.poolStats, by compressor
    delivered,    \* by buffer: in how many batches it was given to sendFn
    queued        \* number of QueueBuf calls so far

compVars == <<compPool, metricsQueue, comp, compStats, delivered, queued>>

VARIABLES
    credit,       \* the Credit struct, and the position of its replenish goroutine
    client,       \* the GetCredit callers: position, arguments and locals
    creditStats,  \* replenish ticks, credit granted and GetCredit calls so far
    creditSd,     \* what was called to stop, and whether wg.Wait() is pending
    reader        \* a CreditReader, its caller and what it has delivered

creditVars == <<credit, client, creditStats, creditSd, reader>>

VARIABLES
    clockBack     \* how many times the wall clock was set back

wallVars == <<clockBack>>

VARIABLES
    bufPool,      \* the ReadFileBufPool struct
    buffers       \* the bytes.Buffer objects created so far, and who holds them

bufVars == <<bufPool, buffers>>

VARIABLES
    initialCycleNum, \* the global counter behind GetInitialCycleNum
    gauge,           \* the GaugeMetrics generator and what its runs did
    counterMetrics,  \* the CounterMetrics generator, its parser and its runs
    categoricalMetrics \* the CategoricalMetrics generator and its runs

genVars == <<initialCycleNum, gauge, counterMetrics, categoricalMetrics>>

VARIABLES
    runner,          \* Run: its position, its config and its deferred calls
    runProc          \* the goroutines and queues of the components Run built

runVars == <<runner, runProc>>

appVars == <<genVars, runVars>>

vars == <<schedVars, poolVars, compVars, creditVars, wallVars, bufVars, appVars>>

\* time.Time.Truncate / time.Duration.Truncate for non-negative values
Truncate(t, d) == t - (t % d)

\* time.Duration.Truncate rounds toward zero
DurationTruncate(d, m) ==
    IF d >= 0 THEN d - (d % m) ELSE 0 - ((0 - d) - ((0 - d) % m))

\* a CompliantTaskInterval that always rounds down
CompliantTaskInterval_floor(interval) ==
    LET compliantInterval == DurationTruncate(interval, SCHEDULER_GRANULARITY)
    IN  IF compliantInterval < SCHEDULER_TASK_MIN_EXECUTION_PAUSE
        THEN SCHEDULER_TASK_MIN_EXECUTION_PAUSE
        ELSE compliantInterval

CompliantTaskInterval(interval) ==
    LET compliantInterval == DurationTruncate(interval, SCHEDULER_GRANULARITY)
        rounded == IF 2 * (interval - compliantInterval) >= SCHEDULER_GRANULARITY
                   THEN compliantInterval + SCHEDULER_GRANULARITY
                   ELSE compliantInterval
    IN  IF rounded < SCHEDULER_TASK_MIN_EXECUTION_PAUSE
        THEN SCHEDULER_TASK_MIN_EXECUTION_PAUSE
        ELSE rounded

NewTask(interval) ==
    [nextTs |-> 0, interval |-> interval, addedByWorker |-> FALSE,
     lastExecuted |-> 0]

NewTaskStats ==
    [scheduled |-> 0, delayed |-> 0, overrun |-> 0, executed |-> 0,
     hack |-> 0, disabled |-> FALSE]

\* stats[id] == nil
NilStats == [nil |-> TRUE]

SchedInitVars ==
    /\ state = "Created"
    /\ tasks = <<>>
    /\ taskQ = <<>>
    /\ todoQ = <<>>
    /\ task = [t \in TaskIds |-> NewTask(0)]
    /\ stats = [t \in TaskIds |-> NilStats]
    /\ now = 0
    /\ cancelled = FALSE
    /\ dispatcher = [pc |-> "none", task |-> NoTask, activeTimer |-> FALSE,
                     nextSchedTs |-> 0, timerLeft |-> 0]
    /\ worker = [w \in Workers |-> [pc |-> "none", task |-> NoTask, startTs |-> 0]]
    /\ added = {}
    /\ stopped = {}
    /\ sdWaiting = FALSE
    /\ sdCalls = 0
    /\ clockBack = 0

(***************************************************************************)
(* container/heap over scheduler.tasks, ordered by Less (nextTs)           *)
(***************************************************************************)
Swap(h, i, j) == [h EXCEPT ![i] = h[j], ![j] = h[i]]

Less(h, tk, i, j) == tk[h[i]].nextTs < tk[h[j]].nextTs

RECURSIVE up(_, _, _)
up(h, tk, j) ==
    LET i == j \div 2
    IN  IF j = 1 \/ ~Less(h, tk, j, i) THEN h ELSE up(Swap(h, i, j), tk, i)

RECURSIVE down(_, _, _, _)
down(h, tk, i, n) ==
    LET j1 == 2 * i
        j2 == j1 + 1
        j  == IF j2 <= n /\ Less(h, tk, j2, j1) THEN j2 ELSE j1
    IN  IF j1 > n THEN h
        ELSE IF ~Less(h, tk, j, i) THEN h
        ELSE down(Swap(h, i, j), tk, j, n)

\* heap.Push(scheduler, x)
HeapPush(h, tk, x) == up(Append(h, x), tk, Len(h) + 1)

\* heap.Pop(scheduler): the array after Swap(0, n) and down(0, n); its last
\* element is the minimum
HeapPopArranged(h, tk) == down(Swap(h, 1, Len(h)), tk, 1, Len(h) - 1)

\* the task heap.Pop returns
HeapPopTask(h, tk) == HeapPopArranged(h, tk)[Len(h)]

\* a Pop that returns the last element without shortening the array
HeapPopRest_keep(h, tk) == HeapPopArranged(h, tk)

\* scheduler.tasks after heap.Pop
HeapPopRest(h, tk) == SubSeq(HeapPopArranged(h, tk), 1, Len(h) - 1)

(***************************************************************************)
(* Scheduler.AddNewTask, Start                                             *)
(***************************************************************************)
nonSchedVars == <<poolVars, compVars, creditVars, wallVars, bufVars, appVars>>

AddNewTask(t, interval) ==
    /\ t \notin added
    /\ t = Cardinality(added) + 1
    /\ Len(taskQ) < TaskQLen
    /\ task' = [task EXCEPT ![t] = [NewTask(CompliantTaskInterval(interval))
                                     EXCEPT !.addedByWorker = FALSE]]
    /\ taskQ' = Append(taskQ, t)
    /\ added' = added \cup {t}
    /\ UNCHANGED <<state, tasks, todoQ, stats, now, cancelled, dispatcher,
                   worker, stopped, sdWaiting, sdCalls>>
    /\ UNCHANGED nonSchedVars

\* a dispatcher that arms the timer for the task pushed last
ArmTimer_last(d, h, tk, timeNow) ==
    IF ~d.activeTimer /\ Len(h) > 0
    THEN [d EXCEPT !.nextSchedTs = tk[h[Len(h)]].nextTs,
                   !.timerLeft = Max(0, tk[h[Len(h)]].nextTs - timeNow),
                   !.activeTimer = TRUE]
    ELSE d

\* the timer set up at the top of the dispatcher loop
ArmTimer(d, h, tk, timeNow) ==
    IF ~d.activeTimer /\ Len(h) > 0
    THEN [d EXCEPT !.nextSchedTs = tk[h[1]].nextTs,
                   !.timerLeft = Max(0, tk[h[1]].nextTs - timeNow),
                   !.activeTimer = TRUE]
    ELSE d

\* if !timer.Stop() { <-timer.C }; activeTimer = false
StopTimer(d) == [d EXCEPT !.activeTimer = FALSE, !.timerLeft = 0]

Start ==
    /\ IF state = "Created"
       THEN /\ state' = "Running"
            /\ dispatcher' = ArmTimer([dispatcher EXCEPT !.pc = "select"],
                                      tasks, task, now)
            /\ worker' = [w \in Workers |-> [worker[w] EXCEPT !.pc = "select"]]
       ELSE UNCHANGED <<state, dispatcher, worker>>
    /\ UNCHANGED <<tasks, taskQ, todoQ, task, stats, now, cancelled, added,
                   stopped, sdWaiting, sdCalls>>
    /\ UNCHANGED nonSchedVars

(***************************************************************************)
(* Scheduler.dispatcherLoop                                                *)
(***************************************************************************)
\* the deadline hack loop: for nextTs.Before(task.nextTs) { nextTs += interval }
RECURSIVE HackedNextTs(_, _, _)
HackedNextTs(nextTs, taskNextTs, interval) ==
    IF nextTs < taskNextTs
    THEN HackedNextTs(nextTs + interval, taskNextTs, interval)
    ELSE nextTs

\* a dispatcher without the deadline hack
DeadlineHack_none(nextTs, tk) == nextTs

\* the hack loop applied to the next multiple of the interval, for task tk
DeadlineHack(nextTs, tk) == HackedNextTs(nextTs, tk.nextTs, tk.interval)

\* a dispatcher that never notices that it applied the hack
NextTsTweaked_never(nextTs, tweakedTs) == FALSE

\* nextTsTweaked: the hack loop ran at least once
NextTsTweaked(nextTs, tweakedTs) == tweakedTs # nextTs

\* stats[task.id] with the scheduled count incremented, created when nil
StatsScheduled(st) ==
    LET s0 == IF st = NilStats THEN NewTaskStats ELSE st
    IN  [s0 EXCEPT !.scheduled = @ + 1]

\* a dispatcher that does not look at the pause since the last execution
DispatchReAdded_nopause(t, timeNow) ==
    LET tk        == task[t]
        nextTs0   == Truncate(timeNow, tk.interval) + tk.interval
        nextTs    == HackedNextTs(nextTs0, tk.nextTs, tk.interval)
        newTask   == [task EXCEPT ![t].nextTs = nextTs]
        newTasks  == HeapPush(tasks, newTask, t)
        d1        == IF dispatcher.activeTimer /\ nextTs < dispatcher.nextSchedTs
                     THEN StopTimer(dispatcher) ELSE dispatcher
    IN  /\ task' = newTask
        /\ tasks' = newTasks
        /\ stats' = [stats EXCEPT
               ![t].hack = IF nextTs # nextTs0 THEN @ + 1 ELSE @]
        /\ dispatcher' = ArmTimer([d1 EXCEPT !.task = NoTask], newTasks,
                                  newTask, timeNow)

\* case task = <-taskQ, for a task re-added by a worker
DispatchReAdded(t, timeNow) ==
    LET tk        == task[t]
        nextTs0   == Truncate(timeNow, tk.interval) + tk.interval
        nextTs1   == DeadlineHack(nextTs0, tk)
        nextTsTweaked == NextTsTweaked(nextTs0, nextTs1)
        minNextTs == tk.lastExecuted + SCHEDULER_TASK_MIN_EXECUTION_PAUSE
        taskDelayed == nextTs1 < minNextTs
        nextTs    == IF taskDelayed THEN minNextTs ELSE nextTs1
        newTask   == [task EXCEPT ![t].nextTs = nextTs]
        newTasks  == HeapPush(tasks, newTask, t)
        d1        == IF dispatcher.activeTimer /\ nextTs < dispatcher.nextSchedTs
                     THEN StopTimer(dispatcher) ELSE dispatcher
    IN  /\ task' = newTask
        /\ tasks' = newTasks
        /\ stats' = [stats EXCEPT
               ![t].hack = IF nextTsTweaked THEN @ + 1 ELSE @,
               ![t].delayed = IF taskDelayed THEN @ + 1 ELSE @]
        /\ dispatcher' = ArmTimer([d1 EXCEPT !.task = NoTask], newTasks,
                                  newTask, timeNow)

\* a dispatcher that never executes a new task right away
DispatchNew_push(t, timeNow) ==
    LET tk      == task[t]
        nextTs  == Truncate(timeNow, tk.interval) + tk.interval
        newTask  == [task EXCEPT ![t].nextTs = nextTs]
        newTasks == HeapPush(tasks, newTask, t)
        d1 == IF dispatcher.activeTimer /\ nextTs < dispatcher.nextSchedTs
              THEN StopTimer(dispatcher) ELSE dispatcher
    IN  /\ task' = newTask
        /\ tasks' = newTasks
        /\ stats' = stats
        /\ dispatcher' = ArmTimer([d1 EXCEPT !.task = NoTask],
                                  newTasks, newTask, timeNow)

\* case task = <-taskQ, for a new task
DispatchNew(t, timeNow) ==
    LET tk      == task[t]
        nextTs  == Truncate(timeNow, tk.interval) + tk.interval
    IN  IF nextTs - timeNow < SCHEDULER_TASK_MIN_EXECUTION_PAUSE
        THEN LET newTask  == [task EXCEPT ![t].nextTs = nextTs]
                 newTasks == HeapPush(tasks, newTask, t)
                 d1 == IF dispatcher.activeTimer /\ nextTs < dispatcher.nextSchedTs
                       THEN StopTimer(dispatcher) ELSE dispatcher
             IN  /\ task' = newTask
                 /\ tasks' = newTasks
                 /\ stats' = stats
                 /\ dispatcher' = ArmTimer([d1 EXCEPT !.task = NoTask],
                                           newTasks, newTask, timeNow)
        ELSE /\ task' = [task EXCEPT ![t].nextTs = timeNow]
             /\ tasks' = tasks
             /\ stats' = [stats EXCEPT ![t] = StatsScheduled(@)]
             /\ dispatcher' = [StopTimer(dispatcher) EXCEPT !.task = t,
                                                            !.pc = "send"]

DispatcherRecv ==
    /\ dispatcher.pc = "select"
    /\ Len(taskQ) > 0
    /\ taskQ' = Tail(taskQ)
    /\ IF task[Head(taskQ)].addedByWorker
       THEN DispatchReAdded(Head(taskQ), now)
       ELSE DispatchNew(Head(taskQ), now)
    /\ UNCHANGED <<state, todoQ, now, cancelled, worker, added, stopped,
                   sdWaiting, sdCalls>>
    /\ UNCHANGED nonSchedVars

\* case <-timer.C
DispatcherTimer ==
    /\ dispatcher.pc = "select"
    /\ dispatcher.activeTimer
    /\ dispatcher.timerLeft = 0
    /\ LET t == HeapPopTask(tasks, task)
       IN  /\ tasks' = HeapPopRest(tasks, task)
           /\ stats' = [stats EXCEPT ![t] = StatsScheduled(@)]
           /\ dispatcher' = [dispatcher EXCEPT !.activeTimer = FALSE,
                                               !.task = t, !.pc = "send"]
    /\ UNCHANGED <<state, taskQ, todoQ, task, now, cancelled, worker, added,
                   stopped, sdWaiting, sdCalls>>
    /\ UNCHANGED nonSchedVars

\* todoQ <- task, then the top of the loop
DispatcherSend ==
    /\ dispatcher.pc = "send"
    /\ Len(todoQ) < TodoQLen
    /\ todoQ' = Append(todoQ, dispatcher.task)
    /\ dispatcher' = ArmTimer([dispatcher EXCEPT !.task = NoTask,
                                                 !.pc = "select"],
                              tasks, task, now)
    /\ UNCHANGED <<state, tasks, taskQ, task, stats, now, cancelled, worker,
                   added, stopped, sdWaiting, sdCalls>>
    /\ UNCHANGED nonSchedVars

\* case <-ctx.Done()
DispatcherCancel ==
    /\ dispatcher.pc = "select"
    /\ cancelled
    /\ dispatcher' = [StopTimer(dispatcher) EXCEPT !.pc = "done"]
    /\ UNCHANGED <<state, tasks, taskQ, todoQ, task, stats, now, cancelled,
                   worker, added, stopped, sdWaiting, sdCalls>>
    /\ UNCHANGED nonSchedVars

(***************************************************************************)
(* Scheduler.workerLoop                                                    *)
(***************************************************************************)
\* case task := <-todoQ: the action is started
WorkerRecv(w) ==
    /\ worker[w].pc = "select"
    /\ Len(todoQ) > 0
    /\ todoQ' = Tail(todoQ)
    /\ worker' = [worker EXCEPT ![w] = [pc |-> "run", task |-> Head(todoQ),
                                        startTs |-> now]]
    /\ UNCHANGED <<state, tasks, taskQ, task, stats, now, cancelled,
                   dispatcher, added, stopped, sdWaiting, sdCalls>>
    /\ UNCHANGED nonSchedVars

\* a stats update that counts an overrun only when the runtime exceeds the
\* interval
StatsExecuted_strict(st, runtime, interval, reQueue) ==
    [st EXCEPT !.overrun = IF runtime > interval THEN @ + 1 ELSE @,
               !.executed = @ + 1,
               !.disabled = ~reQueue]

\* the stats update after the action returned
StatsExecuted(st, runtime, interval, reQueue) ==
    [st EXCEPT !.overrun = IF runtime >= interval THEN @ + 1 ELSE @,
               !.executed = @ + 1,
               !.disabled = ~reQueue]

\* the results task.action() may return: the last task may ask to be disabled
ActionResults(t) == IF t = NumTasks THEN BOOLEAN ELSE {TRUE}

\* a worker that puts the task back whatever the action returned
WorkerRun_always(w, reQueue) ==
    /\ worker[w].pc = "run"
    /\ reQueue \in ActionResults(worker[w].task)
    /\ LET t == worker[w].task
           endTs == now
           runtime == endTs - worker[w].startTs
       IN  /\ stats' = [stats EXCEPT
                  ![t] = StatsExecuted(@, runtime, task[t].interval, reQueue)]
           /\ task' = [task EXCEPT ![t].lastExecuted = endTs,
                                   ![t].addedByWorker = TRUE]
           /\ worker' = [worker EXCEPT ![w].pc = "send", ![w].startTs = 0]
           /\ stopped' = stopped
    /\ UNCHANGED <<state, tasks, taskQ, todoQ, now, cancelled, dispatcher,
                   added, sdWaiting, sdCalls>>
    /\ UNCHANGED nonSchedVars

\* task.action() returns reQueue
WorkerRun(w, reQueue) ==
    /\ worker[w].pc = "run"
    /\ reQueue \in ActionResults(worker[w].task)
    /\ LET t == worker[w].task
           endTs == now
           runtime == endTs - worker[w].startTs
       IN  /\ stats' = [stats EXCEPT
                  ![t] = StatsExecuted(@, runtime, task[t].interval, reQueue)]
           /\ IF reQueue
              THEN /\ task' = [task EXCEPT ![t].lastExecuted = endTs,
                                           ![t].addedByWorker = TRUE]
                   /\ worker' = [worker EXCEPT ![w].pc = "send",
                                               ![w].startTs = 0]
                   /\ stopped' = stopped
              ELSE /\ task' = [task EXCEPT ![t].lastExecuted = endTs]
                   /\ worker' = [worker EXCEPT ![w].pc = "select",
                                               ![w].task = NoTask,
                                               ![w].startTs = 0]
                   /\ stopped' = stopped \cup {t}
    /\ UNCHANGED <<state, tasks, taskQ, todoQ, now, cancelled, dispatcher,
                   added, sdWaiting, sdCalls>>
    /\ UNCHANGED nonSchedVars

\* taskQ <- task
WorkerSend(w) ==
    /\ worker[w].pc = "send"
    /\ Len(taskQ) < TaskQLen
    /\ taskQ' = Append(taskQ, worker[w].task)
    /\ worker' = [worker EXCEPT ![w].pc = "select", ![w].task = NoTask]
    /\ UNCHANGED <<state, tasks, todoQ, task, stats, now, cancelled,
                   dispatcher, added, stopped, sdWaiting, sdCalls>>
    /\ UNCHANGED nonSchedVars

\* case <-ctx.Done()
WorkerCancel(w) ==
    /\ worker[w].pc = "select"
    /\ cancelled
    /\ worker' = [worker EXCEPT ![w].pc = "done"]
    /\ UNCHANGED <<state, tasks, taskQ, todoQ, task, stats, now, cancelled,
                   dispatcher, added, stopped, sdWaiting, sdCalls>>
    /\ UNCHANGED nonSchedVars

(***************************************************************************)
(* Scheduler.Shutdown                                                      *)
(***************************************************************************)
\* every goroutine registered with scheduler.wg has exited
WgDone ==
    /\ dispatcher.pc \in {"none", "done"}
    /\ \A w \in Workers : worker[w].pc \in {"none", "done"}

\* Shutdown up to wg.Wait(); an already stopped scheduler returns at once
Shutdown ==
    /\ sdCalls < MaxShutdownCalls
    /\ sdCalls' = sdCalls + 1
    /\ IF state = "Stopped"
       THEN UNCHANGED <<state, cancelled, sdWaiting>>
       ELSE /\ state' = "Stopped"
            /\ cancelled' = TRUE
            /\ sdWaiting' = TRUE
    /\ UNCHANGED <<tasks, taskQ, todoQ, task, stats, now, dispatcher, worker,
                   added, stopped>>
    /\ UNCHANGED nonSchedVars

\* wg.Wait() returns
ShutdownReturn ==
    /\ sdWaiting
    /\ WgDone
    /\ sdWaiting' = FALSE
    /\ UNCHANGED <<state, tasks, taskQ, todoQ, task, stats, now, cancelled,
                   dispatcher, worker, added, stopped, sdCalls>>
    /\ UNCHANGED nonSchedVars

\* time passes
SchedTick ==
    /\ now < MaxNow
    /\ now' = now + SCHEDULER_GRANULARITY
    /\ dispatcher' = IF dispatcher.activeTimer
                     THEN [dispatcher EXCEPT
                              !.timerLeft = Max(0, @ - SCHEDULER_GRANULARITY)]
                     ELSE dispatcher
    /\ UNCHANGED <<state, tasks, taskQ, todoQ, task, stats, cancelled, worker,
                   added, stopped, sdWaiting, sdCalls>>
    /\ UNCHANGED nonSchedVars

\* the wall clock is set back (a clock step, or the drift seen on virtualized
\* hosts); a running timer and the runtime of an action, both measured on
\* the monotonic clock, do not see it
ClockBack ==
    /\ clockBack < MaxClockBack
    /\ clockBack' = clockBack + 1
    /\ \E back \in 1..(now \div SCHEDULER_GRANULARITY) :
          /\ now' = now - back * SCHEDULER_GRANULARITY
          /\ worker' = [w \in Workers |->
                IF worker[w].pc = "run"
                THEN [worker[w] EXCEPT
                        !.startTs = @ - back * SCHEDULER_GRANULARITY]
                ELSE worker[w]]
    /\ UNCHANGED <<state, tasks, taskQ, todoQ, task, stats, cancelled,
                   dispatcher, added, stopped, sdWaiting, sdCalls>>
    /\ UNCHANGED <<poolVars, compVars, creditVars, bufVars, appVars>>

SchedNext ==
    \/ \E t \in TaskIds : AddNewTask(t, RawInterval(t))
    \/ Start
    \/ DispatcherRecv
    \/ DispatcherTimer
    \/ DispatcherSend
    \/ DispatcherCancel
    \/ \E w \in Workers : WorkerRecv(w)
    \/ \E w \in Workers, r \in BOOLEAN : WorkerRun(w, r)
    \/ \E w \in Workers : WorkerSend(w)
    \/ \E w \in Workers : WorkerCancel(w)
    \/ Shutdown
    \/ ShutdownReturn
    \/ SchedTick

(***************************************************************************)
(* Scheduler properties                                                    *)
(***************************************************************************)
\* the number of places task t is in: the heap, the task queue, the TODO
\* queue, the dispatcher (in transit) or a worker
Places(t) ==
    Count(tasks, t) + Count(taskQ, t) + Count(todoQ, t)
    + (IF dispatcher.task = t THEN 1 ELSE 0)
    + Cardinality({w \in Workers : worker[w].task = t})

\* C1: every task added to the scheduler whose action has not returned false
\* is in exactly one place (heap, task queue, TODO queue, dispatcher in
\* transit, or one worker); a task not added or disabled is in none.
C1_TaskExclusivity ==
    \A t \in TaskIds :
        Places(t) = IF t \in added /\ t \notin stopped THEN 1 ELSE 0

\* all tasks are in the scheduler, spread over the heap (put back there after
\* a run), a worker and a queue
C1_Witness ==
    /\ added = TaskIds
    /\ stopped = {}
    /\ \E t \in TaskIds : task[t].addedByWorker /\ Count(tasks, t) = 1
    /\ \E w \in Workers : worker[w].pc = "run"
    /\ Len(todoQ) + Len(taskQ) > 0

\* C3: after the context is cancelled no goroutine is left blocked on a queue
\* send that nobody can receive any more (the dispatcher on a full todoQ with
\* all workers gone, or a worker on a full taskQ with the dispatcher gone), a
\* state in which wg.Wait() and so Shutdown never return.
C3_NoSendBlockedAfterCancel ==
    ~ /\ cancelled
      /\ \/ /\ dispatcher.pc = "send"
            /\ Len(todoQ) = TodoQLen
            /\ \A w \in Workers : worker[w].pc = "done"
         \/ /\ dispatcher.pc = "done"
            /\ \E w \in Workers : /\ worker[w].pc = "send"
                                  /\ Len(taskQ) = TaskQLen

\* C3, as a liveness property: a Shutdown that waits eventually returns
C3_ShutdownReturns == sdWaiting ~> ~sdWaiting

\* the dispatcher takes task t from the task queue
TaskRecvStep(t) ==
    /\ dispatcher.pc = "select"
    /\ Len(taskQ) > 0
    /\ Head(taskQ) = t
    /\ taskQ' = Tail(taskQ)

\* the scheduled count of task t, 0 while it has no stats
ScheduledCount(st, t) == IF st[t] = NilStats THEN 0 ELSE st[t].scheduled

\* t went on the heap with next_ts and was not handed to the TODO queue
PushedForLater(t, nextTs) ==
    /\ Count(tasks', t) = Count(tasks, t) + 1
    /\ Len(tasks') = Len(tasks) + 1
    /\ task'[t].nextTs = nextTs
    /\ dispatcher'.task = NoTask
    /\ dispatcher'.pc = "select"
    /\ todoQ' = todoQ
    /\ ScheduledCount(stats', t) = ScheduledCount(stats, t)

\* t is on its way to the TODO queue, the heap was left alone
ExecutedNow(t) ==
    /\ tasks' = tasks
    /\ dispatcher'.task = t
    /\ dispatcher'.pc = "send"
    /\ ScheduledCount(stats', t) = ScheduledCount(stats, t) + 1

NewTaskDispatch(t) ==
    LET nextTs == Truncate(now, task[t].interval) + task[t].interval
    IN  IF task[t].addedByWorker
        THEN \E ts \in 0..(2 * MaxNow + MaxRawInterval) : PushedForLater(t, ts)
        ELSE IF nextTs - now < SCHEDULER_TASK_MIN_EXECUTION_PAUSE
             THEN PushedForLater(t, nextTs)
             ELSE ExecutedNow(t)

\* C22: a new task (added_by_worker = false) received by the dispatcher is
\* pushed on the heap with next_ts = now.truncate(interval) + interval when
\* next_ts - now < MIN_PAUSE, and otherwise goes to the TODO queue at once,
\* the heap untouched and one scheduled event counted; a re-queued task
\* always goes on the heap.
C22_NewTaskDispatch ==
    [][\A t \in TaskIds : TaskRecvStep(t) => NewTaskDispatch(t)]_vars

\* a new task is about to be executed right away while another new task,
\* received too close to its deadline, waits on the heap
C22_Witness ==
    /\ dispatcher.pc = "send"
    /\ dispatcher.task # NoTask
    /\ ~task[dispatcher.task].addedByWorker
    /\ stats[dispatcher.task] # NilStats
    /\ stats[dispatcher.task].scheduled = 1
    /\ \E t \in SeqToSet(tasks) : ~task[t].addedByWorker /\ task[t].nextTs > now

\* the dispatcher takes task t, returned by a worker, from the task queue
ReScheduleStep(t) == TaskRecvStep(t) /\ task[t].addedByWorker

\* the next multiple of the interval after now, moved past the previous
\* next_ts of the task when the clock went backwards
GridNextTs(t) ==
    HackedNextTs(Truncate(now, task[t].interval) + task[t].interval,
                 task[t].nextTs, task[t].interval)

MinNextTs(t) == task[t].lastExecuted + SCHEDULER_TASK_MIN_EXECUTION_PAUSE

BackToBack(t) ==
    /\ task'[t].nextTs >= MinNextTs(t)
    /\ IF GridNextTs(t) < MinNextTs(t)
       THEN /\ task'[t].nextTs = MinNextTs(t)
            /\ stats'[t].delayed = stats[t].delayed + 1
       ELSE /\ task'[t].nextTs = GridNextTs(t)
            /\ stats'[t].delayed = stats[t].delayed

\* C23: when the dispatcher re-schedules a task returned by a worker the
\* next_ts it stores is at least last_executed + MIN_PAUSE; a grid-aligned
\* next_ts earlier than that is replaced by last_executed + MIN_PAUSE and
\* counted as one delayed event, otherwise the delayed counter is unchanged.
C23_BackToBack ==
    [][\A t \in TaskIds : ReScheduleStep(t) => BackToBack(t)]_vars

\* a task that was re-scheduled less than MIN_PAUSE after it ran waits on the
\* heap for last_executed + MIN_PAUSE, off the grid of its interval
C23_Witness ==
    \E t \in SeqToSet(tasks) :
        /\ task[t].addedByWorker
        /\ stats[t].delayed = 1
        /\ task[t].nextTs = task[t].lastExecuted
                              + SCHEDULER_TASK_MIN_EXECUTION_PAUSE
        /\ task[t].nextTs % task[t].interval # 0

\* how many times interval has to be added to nextTs until it is no longer
\* before taskNextTs
RECURSIVE Additions(_, _, _)
Additions(nextTs, taskNextTs, interval) ==
    IF nextTs < taskNextTs
    THEN 1 + Additions(nextTs + interval, taskNextTs, interval)
    ELSE 0

\* the additions the re-scheduling of t needs now
HackAdditions(t) ==
    Additions(Truncate(now, task[t].interval) + task[t].interval,
              task[t].nextTs, task[t].interval)

\* the next_ts stored is the first grid point not before the previous next_ts,
\* unless the pause after the last execution moved it further
HackRestoresOrder(t) ==
    /\ task'[t].nextTs >= task[t].nextTs
    /\ task'[t].nextTs >= Truncate(now, task[t].interval)
                            + (1 + HackAdditions(t)) * task[t].interval

\* C24, as stated: re-scheduling a task whose grid-aligned next_ts is k
\* intervals behind its previous next_ts adds the interval k times and
\* increases the deadline-hack counter of the task by k.
C24_HackPerAddition ==
    [][\A t \in TaskIds :
          ReScheduleStep(t) =>
              /\ HackRestoresOrder(t)
              /\ stats'[t].hack = stats[t].hack + HackAdditions(t)]_vars

\* C24, amended: the interval is added k times, and the deadline-hack counter
\* of the task increases by one when k > 0, whatever k is, and is unchanged
\* when k = 0.
C24_HackPerReSchedule ==
    [][\A t \in TaskIds :
          ReScheduleStep(t) =>
              /\ HackRestoresOrder(t)
              /\ stats'[t].hack = stats[t].hack
                                    + (IF HackAdditions(t) > 0 THEN 1 ELSE 0)]_vars

\* the only task of the scheduler was re-scheduled after the clock went back:
\* its timer was armed for 120 ms when the clock was at most at 20 ms, which
\* took two additions of its 40 ms interval, and one hack is counted
C24_Witness ==
    /\ added = {1}
    /\ tasks = <<1>>
    /\ task[1].addedByWorker
    /\ task[1].interval = 2 * SCHEDULER_GRANULARITY
    /\ task[1].nextTs = 6 * SCHEDULER_GRANULARITY
    /\ dispatcher.activeTimer
    /\ dispatcher.timerLeft >= 5 * SCHEDULER_GRANULARITY
    /\ stats[1].hack = 1

\* C36: after the dispatcher has processed a task re-queued by a worker, the
\* next_ts stored for the task is never earlier than the next_ts the task had
\* for its previous run, whatever the wall clock says, a clock set back by
\* any amount included.
C36_ChronologicalOrder ==
    [][\A t \in TaskIds :
          ReScheduleStep(t) => task'[t].nextTs >= task[t].nextTs]_vars

\* the wall clock was set back, and a task re-scheduled since waits on the
\* heap for a deadline that the hack moved more than an interval ahead of
\* the clock
C36_Witness ==
    /\ clockBack > 0
    /\ \E t \in SeqToSet(tasks) :
          /\ task[t].addedByWorker
          /\ stats[t].hack > 0
          /\ stats[t].delayed = 0
          /\ task[t].nextTs > Truncate(now, task[t].interval) + task[t].interval

\* C38: while the scheduler runs (no Shutdown, every action returns), for
\* any number of tasks relative to the queue capacities, the dispatcher is
\* never blocked sending to a full TODO queue while every worker is blocked
\* sending its finished task to a full task queue.
C38_NoSendDeadlock ==
    ~ /\ ~cancelled
      /\ dispatcher.pc = "send"
      /\ Len(todoQ) = TodoQLen
      /\ Len(taskQ) = TaskQLen
      /\ \A w \in Workers : worker[w].pc = "send"

\* the action started by worker w returns
ActionReturnStep(w) == worker[w].pc = "run" /\ worker'[w].pc # "run"

\* the action returned false: the task is marked disabled and dropped
Disabling(w) ==
    \E t \in TaskIds :
        /\ t = worker[w].task
        /\ stats'[t].disabled
        /\ Places(t)' = 0
        /\ worker'[w].pc = "select"

\* the action returned true: the worker goes on to put the task back
ReQueueing(w) ==
    \E t \in TaskIds :
        /\ t = worker[w].task
        /\ ~stats'[t].disabled
        /\ task'[t].addedByWorker
        /\ worker'[w].task = t
        /\ Places(t)' = 1

\* the worker puts its task on the task queue
ReQueueStep(w) ==
    /\ worker[w].pc = "send"
    /\ worker'[w].pc # "send"
    /\ taskQ' = Append(taskQ, worker[w].task)
    /\ task[worker[w].task].addedByWorker

\* the return of an action leaves the other tasks as they were
OthersUntouched(w) ==
    \A u \in TaskIds :
        u # worker[w].task =>
        /\ task'[u] = task[u]
        /\ stats'[u] = stats[u]
        /\ Places(u)' = Places(u)

\* a disabled task is nowhere in the scheduler and stays marked
DisabledOut ==
    \A t \in stopped : Places(t) = 0 /\ stats[t].disabled

\* the counters of a disabled task do not move any more
DisabledFrozen ==
    \A t \in stopped : stats'[t] = stats[t] /\ task'[t] = task[t]

\* C25: when the action of a task returns false the worker marks the task
\* disabled and does not re-queue it, the task is never scheduled or executed
\* again, and no other task is affected; when the action returns true the
\* worker puts the task back on the task queue with added_by_worker = true.
C25_DisablingIsolated ==
    /\ []DisabledOut
    /\ [][/\ DisabledFrozen
          /\ \A w \in Workers :
                /\ ActionReturnStep(w) =>
                      /\ Disabling(w) \/ ReQueueing(w)
                      /\ Disabling(w) <=> worker[w].task \in stopped'
                      /\ OthersUntouched(w)
                /\ (worker[w].pc = "send" /\ worker'[w].pc # "send")
                      => ReQueueStep(w)]_vars

\* a task is disabled, and a worker executes another task, already put back
\* once, in a run that started after the disabled task's last run ended
C25_Witness ==
    \E t \in stopped, w \in Workers :
        /\ worker[w].pc = "run"
        /\ task[worker[w].task].addedByWorker
        /\ worker[w].startTs > task[t].lastExecuted
        /\ stats[worker[w].task].executed >= 1

\* the return of the action of task t, started by worker w, is accounted for
ExecutionCounted(w, t) ==
    LET runtime == now - worker[w].startTs
    IN  /\ stats[t] # NilStats
        /\ stats'[t].executed = stats[t].executed + 1
        /\ stats'[t].overrun = stats[t].overrun
                                 + (IF runtime >= task[t].interval THEN 1 ELSE 0)

\* the executed count changes with the return of an action only
ExecutedOnlyByAction(t) ==
    (stats[t] # NilStats /\ stats'[t].executed # stats[t].executed)
        => \E w \in Workers : ActionReturnStep(w) /\ worker[w].task = t

ExecutedWithinScheduled ==
    \A t \in TaskIds :
        stats[t] # NilStats =>
            /\ stats[t].executed <= stats[t].scheduled
            /\ stats[t].overrun <= stats[t].executed

\* C26: each action invocation increments the executed count of its task by
\* exactly one and the overrun count by one if and only if the measured
\* runtime >= the task interval; at every moment executed <= scheduled for
\* each task id.
C26_ExecutionAccounting ==
    /\ []ExecutedWithinScheduled
    /\ [][\A t \in TaskIds :
             /\ ExecutedOnlyByAction(t)
             /\ \A w \in Workers :
                   (ActionReturnStep(w) /\ worker[w].task = t)
                       => ExecutionCounted(w, t)]_vars

\* one task ran for as long as its interval and has its overrun counted, and
\* a task that ran after it, for less than its interval, has none
C26_Witness ==
    \E a, b \in TaskIds :
        /\ stats[a] # NilStats /\ stats[b] # NilStats
        /\ stats[a].executed = 1 /\ stats[a].overrun = 1
        /\ stats[b].executed = 1 /\ stats[b].overrun = 0
        /\ task[b].lastExecuted > task[a].lastExecuted

\* t has the smallest next_ts of the tasks on heap h
HeapMinimum(h, t) == \A i \in 1..Len(h) : task[t].nextTs <= task[h[i]].nextTs

\* the dispatcher waits in its select with a timer armed for the heap minimum
TimerTargetsMinimum ==
    (dispatcher.pc = "select" /\ Len(tasks) > 0) =>
        /\ dispatcher.activeTimer
        /\ HeapMinimum(tasks, tasks[1])
        /\ dispatcher.nextSchedTs = task[tasks[1]].nextTs
        /\ dispatcher.timerLeft = Max(0, dispatcher.nextSchedTs - now)

\* case <-timer.C: a task leaves the heap
TimerStep == dispatcher.pc = "select" /\ Len(tasks') < Len(tasks)

\* the task taken off the heap is the one with the smallest next_ts, its
\* next_ts is reached, and it is the one going to the TODO queue
TimerMovesMinimum ==
    \E t \in TaskIds :
        /\ Count(tasks, t) = 1
        /\ Count(tasks', t) = 0
        /\ Len(tasks') = Len(tasks) - 1
        /\ HeapMinimum(tasks, t)
        /\ task[t].nextTs <= now
        /\ dispatcher'.task = t
        /\ dispatcher'.pc = "send"

\* the task the dispatcher holds is the next one on the TODO queue
SentToTodo ==
    (dispatcher.pc = "send" /\ dispatcher'.pc # "send") =>
        todoQ' = Append(todoQ, dispatcher.task)

\* C27: whenever the dispatcher waits with a non-empty heap the armed timer
\* targets the heap minimum next_ts, also after the push of a sooner
\* deadline; each timer firing moves to the TODO queue exactly the task with
\* the smallest next_ts, and with a monotonic clock no task leaves the heap
\* before its next_ts.
C27_DeadlineOrder ==
    /\ []TimerTargetsMinimum
    /\ [][(TimerStep => TimerMovesMinimum) /\ SentToTodo]_vars

\* a task pushed with a sooner deadline than the one the timer was armed for
\* is at the head of the heap and the timer was re-armed for it
C27_Witness ==
    /\ dispatcher.pc = "select"
    /\ Len(tasks) >= 2
    /\ tasks[1] > tasks[2]
    /\ task[tasks[1]].nextTs < task[tasks[2]].nextTs
    /\ dispatcher.nextSchedTs = task[tasks[1]].nextTs
    /\ dispatcher.timerLeft > 0

\* the intervals a client may create a task with, in milliseconds
RawIntervals ==
    {x \in (0 - MaxRawInterval)..MaxRawInterval : x % 5 = 0}

\* m is the multiple of SCHEDULER_GRANULARITY nearest to x, ties going up
NearestMultiple(x, m) ==
    /\ m % SCHEDULER_GRANULARITY = 0
    /\ 2 * (m - x) <= SCHEDULER_GRANULARITY
    /\ 2 * (x - m) < SCHEDULER_GRANULARITY

\* r is what the claim says a compliant interval for x is
CompliantFor(x, r) ==
    LET K == (MaxRawInterval \div SCHEDULER_GRANULARITY) + 1
    IN  \E k \in (0 - K)..K :
           /\ NearestMultiple(x, k * SCHEDULER_GRANULARITY)
           /\ r = Max(k * SCHEDULER_GRANULARITY,
                      SCHEDULER_TASK_MIN_EXECUTION_PAUSE)

\* the tasks the dispatcher has received or is about to receive
SeenByDispatcher ==
    SeqToSet(taskQ) \cup SeqToSet(tasks) \cup SeqToSet(todoQ)
    \cup ({dispatcher.task} \ {NoTask})

IntervalsCompliant ==
    /\ \A x \in RawIntervals :
          /\ CompliantFor(x, CompliantTaskInterval(x))
          /\ CompliantTaskInterval(CompliantTaskInterval(x))
                = CompliantTaskInterval(x)
    /\ \A t \in SeenByDispatcher :
          /\ task[t].interval % SCHEDULER_GRANULARITY = 0
          /\ task[t].interval >= SCHEDULER_TASK_MIN_EXECUTION_PAUSE
          /\ CompliantTaskInterval(task[t].interval) = task[t].interval

\* C21: CompliantTaskInterval(x) is the multiple of GRANULARITY nearest to x
\* (ties up) and at least MIN_PAUSE, it is idempotent, AddNewTask stores it
\* as the task interval, and every task in a queue, on the heap or held by
\* the dispatcher has a compliant interval.
C21_IntervalCompliance ==
    /\ []IntervalsCompliant
    /\ [][\A t \in TaskIds, x \in RawIntervals :
             AddNewTask(t, x) => CompliantFor(x, task'[t].interval)]_vars

\* two tasks added with intervals that were rounded to 60 ms and 80 ms are
\* with the dispatcher, one on the heap and one back from a worker
C21_Witness ==
    /\ \E t \in SeqToSet(tasks) : task[t].interval = 3 * SCHEDULER_GRANULARITY
    /\ \E t \in SeqToSet(taskQ) :
          /\ task[t].interval = 4 * SCHEDULER_GRANULARITY
          /\ task[t].addedByWorker

(***************************************************************************)
(*                          HTTP ENDPOINT POOL                             *)
(***************************************************************************)
HTTP_ENDPOINT_POOL_HEALTHY_POLL_INTERVAL == 500

HttpEndpointPoolSuccessCodes == {200, 204}

HttpEndpointPoolRetryCodes == {}

Endpoints == 1..NumEndpoints

Senders == 1..NumSenders

\* the nil *HttpEndpoint
NoEp == 0

\* endpoint config: mark_unhealthy_threshold
markUnhealthyThreshold(e) == IF e = 1 THEN 2 ELSE 1

\* pool config: healthy_rotate_interval, error_reset_interval, and
\* send_buffer_timeout (used when SendBuffer is called with timeout < 0)
PoolConfigs ==
    {[healthyRotateInterval |-> -1, errorResetInterval |-> 0],
     [healthyRotateInterval |-> 0, errorResetInterval |-> 0],
     [healthyRotateInterval |-> HTTP_ENDPOINT_POOL_HEALTHY_POLL_INTERVAL,
      errorResetInterval |-> HTTP_ENDPOINT_POOL_HEALTHY_POLL_INTERVAL]}

sendBufferTimeout == HTTP_ENDPOINT_POOL_HEALTHY_POLL_INTERVAL

\* the timeout argument of SendBuffer
Timeouts == {-1, 0}

\* the b argument of SendBuffer: the bytes 7, 8, ...
SendBufs == {[i \in 1..MaxBufLen |-> 6 + i]}

PoolMaxNow == PoolMaxTicks * HTTP_ENDPOINT_POOL_HEALTHY_POLL_INTERVAL

\* what client.Do returns: an error (and no response), or a response with
\* its StatusCode
Outcomes ==
    {[err |-> TRUE, status |-> 0],
     [err |-> FALSE, status |-> 200], [err |-> FALSE, status |-> 204],
     [err |-> FALSE, status |-> 503]}

NoOutcome == [err |-> FALSE, status |-> -1]

(***************************************************************************)
(* HttpEndpointDoublyLinkedList; l is the list (head, tail), es the        *)
(* endpoints with their prev and next pointers                             *)
(***************************************************************************)
Insert(l, es, e, after) ==
    LET es1 == [es EXCEPT ![e].prev = after]
        es2 == IF after # NoEp
               THEN [es1 EXCEPT ![e].next = es1[after].next,
                                ![after].next = e]
               ELSE [es1 EXCEPT ![e].next = l.head]
        l1  == IF after # NoEp THEN l ELSE [l EXCEPT !.head = e]
        l2  == IF es2[e].next = NoEp THEN [l1 EXCEPT !.tail = e] ELSE l1
    IN  [l |-> l2, es |-> es2]

Remove(l, es, e) ==
    LET p   == es[e].prev
        n   == es[e].next
        es1 == IF p # NoEp THEN [es EXCEPT ![p].next = n] ELSE es
        l1  == IF p # NoEp THEN l ELSE [l EXCEPT !.head = n]
        es2 == IF n # NoEp THEN [es1 EXCEPT ![n].prev = p] ELSE es1
        l2  == IF n # NoEp THEN l1 ELSE [l1 EXCEPT !.tail = p]
    IN  [l |-> l2, es |-> [es2 EXCEPT ![e].prev = NoEp, ![e].next = NoEp]]

AddToTail(l, es, e) == Insert(l, es, e, l.tail)

MoveToTail_stay(l, es, e) == [l |-> l, es |-> es]

\* Remove(ep) followed by AddToTail(ep)
MoveToTail(l, es, e) ==
    LET r == Remove(l, es, e) IN AddToTail(r.l, r.es, e)

\* the healthy list as a sequence, following next from the head
RECURSIVE ListFrom(_, _, _)
ListFrom(es, e, fuel) ==
    IF e = NoEp \/ fuel = 0 THEN <<>>
    ELSE <<e>> \o ListFrom(es, es[e].next, fuel - 1)

HealthyList == ListFrom(endpoint, healthy.head, NumEndpoints + 1)

(***************************************************************************)
(* NewHttpEndpointPool                                                     *)
(***************************************************************************)
NewHttpEndpoint ==
    [healthy |-> FALSE, numErrors |-> 0, errorTs |-> 0,
     prev |-> NoEp, next |-> NoEp]

MoveToHealthy_keepErrors(l, es, e) ==
    IF es[e].healthy
    THEN [l |-> l, es |-> es]
    ELSE AddToTail(l, [es EXCEPT ![e].healthy = TRUE], e)

\* MoveToHealthy on the lists
MoveToHealthy(l, es, e) ==
    IF es[e].healthy
    THEN [l |-> l, es |-> es]
    ELSE AddToTail(l, [es EXCEPT ![e].healthy = TRUE, ![e].numErrors = 0], e)

\* the loop over the configured endpoints: MoveToHealthy for 1..n, in order
RECURSIVE InitialLists(_)
InitialLists(n) ==
    IF n = 0
    THEN [l |-> [head |-> NoEp, tail |-> NoEp],
          es |-> [e \in Endpoints |-> NewHttpEndpoint]]
    ELSE LET r == InitialLists(n - 1) IN MoveToHealthy(r.l, r.es, n)

IdleSender ==
    [pc |-> "idle", b |-> <<>>, deadline |-> 0, attempt |-> 0, ep |-> NoEp,
     body |-> [pos |-> 0, closed |-> FALSE], ghDeadline |-> 0, wakeAt |-> 0,
     result |-> "", carried |-> <<>>, putTs |-> 0, last |-> NoOutcome,
     allEmpty |-> TRUE, puts |-> 0]

\* the pool after NewHttpEndpointPool(cfg); callers are the goroutines that
\* will call SendBuffer
PoolInitVars(cfg, callers) ==
    /\ healthy = InitialLists(NumEndpoints).l
    /\ endpoint = InitialLists(NumEndpoints).es
    /\ epPool = [healthyRotateInterval |-> cfg.healthyRotateInterval,
                 errorResetInterval |-> cfg.errorResetInterval,
                 healthyHeadChangeTs |-> 0, firstUse |-> TRUE,
                 shutdown |-> FALSE, ctxDone |-> FALSE]
    /\ poolStats = [noHealthyEp |-> 0]
    /\ poolNow = 0
    /\ sender = [s \in Senders |->
                    IF s \in callers THEN IdleSender
                    ELSE [IdleSender EXCEPT !.pc = "off"]]
    /\ probes = [e \in Endpoints |-> 0]
    /\ poolSd = [waiting |-> FALSE, sends |-> 0]

nonPoolVars == <<schedVars, compVars, creditVars, wallVars, bufVars, appVars>>

(***************************************************************************)
(* The request body: BytesReadSeekCloser                                   *)
(***************************************************************************)
NewBytesReadSeekCloser(b) == [pos |-> 0, closed |-> Len(b) = 0]

\* Seek(offset, io.SeekStart)
Seek(body, offset) ==
    IF body.closed THEN body ELSE [body EXCEPT !.pos = offset]

Rewind(body) == Seek([body EXCEPT !.closed = FALSE], 0)

\* what reading the body to the end delivers
ReadAll(b, body) ==
    IF body.closed THEN <<>> ELSE SubSeq(b, body.pos + 1, Len(b))

(***************************************************************************)
(* HttpEndpointPool.GetCurrentHealthy                                      *)
(***************************************************************************)
\* whether GetCurrentHealthy moves the head to the tail before selecting
Rotates(l, pool, timeNow) ==
    /\ ~pool.firstUse
    /\ \/ pool.healthyRotateInterval = 0
       \/ /\ pool.healthyRotateInterval > 0
          /\ timeNow - pool.healthyHeadChangeTs >= pool.healthyRotateInterval
    /\ l.head # l.tail

\* GetCurrentHealthy after the wait loop, the healthy list being non-empty
SelectHealthy(l, es, pool, ps, timeNow) ==
    LET rotate == Rotates(l, pool, timeNow)
        r      == IF rotate THEN MoveToTail(l, es, l.head)
                  ELSE [l |-> l, es |-> es]
        ep     == r.l.head
        pool1  == IF pool.firstUse
                  THEN [pool EXCEPT !.healthyHeadChangeTs = timeNow,
                                    !.firstUse = FALSE]
                  ELSE IF rotate
                  THEN [pool EXCEPT !.healthyHeadChangeTs = timeNow]
                  ELSE pool
        reset  == /\ r.es[ep].numErrors > 0
                  /\ pool.errorResetInterval > 0
                  /\ timeNow - r.es[ep].errorTs >= pool.errorResetInterval
    IN  [l |-> r.l,
         es |-> IF reset THEN [r.es EXCEPT ![ep].numErrors = 0] ELSE r.es,
         pool |-> pool1,
         ps |-> ps,
         ep |-> ep]

\* the wait loop is left at once: an endpoint is there, or the pool is shut down
LeavesWaitLoop(head, shutdown) == head # NoEp \/ shutdown

WaitExpired_always(ghDeadline, timeNow) == TRUE

\* the wait loop gives up: return nil
WaitExpired(ghDeadline, timeNow) == ghDeadline - timeNow <= 0

\* SendBuffer returns: the locals of the call other than what it returns and
\* what it did are gone
Returned(sd, result) ==
    [IdleSender EXCEPT !.pc = "ret", !.result = result,
                       !.last = sd.last,
                       !.puts = sd.puts, !.allEmpty = sd.allEmpty]

\* SendBuffer: GetCurrentHealthy returned nil
ReturnNoHealthy(s, sd) ==
    /\ poolStats' = [poolStats EXCEPT !.noHealthyEp = @ + 1]
    /\ sender' = [sender EXCEPT ![s] = Returned(sd, "noHealthyEp")]
    /\ UNCHANGED <<healthy, endpoint, epPool>>

AttemptBody_norewind(body, attempt) == body

\* the body of attempt number attempt: rewound on a retry
AttemptBody(body, attempt) == IF attempt > 1 THEN Rewind(body) ELSE body

\* SendBuffer: GetCurrentHealthy returned an endpoint, the PUT is issued
StartPut(s, sd) ==
    LET r    == SelectHealthy(healthy, endpoint, epPool, poolStats, poolNow)
        body == AttemptBody(sd.body, sd.attempt)
    IN  /\ healthy' = r.l
        /\ endpoint' = r.es
        /\ epPool' = r.pool
        /\ poolStats' = r.ps
        /\ sender' = [sender EXCEPT ![s] =
               [sd EXCEPT !.pc = "do", !.ep = r.ep, !.body = body,
                          !.carried = ReadAll(sd.b, body),
                          !.putTs = poolNow, !.puts = @ + 1,
                          !.wakeAt = 0, !.ghDeadline = 0]]

\* one pass of the wait loop of GetCurrentHealthy, and what follows it
GetCurrentHealthy(s, sd0) ==
    LET sd == [sd0 EXCEPT !.allEmpty = @ /\ healthy.head = NoEp]
    IN  IF LeavesWaitLoop(healthy.head, epPool.shutdown)
        THEN IF healthy.head = NoEp
             THEN ReturnNoHealthy(s, sd)
             ELSE StartPut(s, sd)
        ELSE IF WaitExpired(sd.ghDeadline, poolNow)
             THEN ReturnNoHealthy(s, sd)
             ELSE /\ sender' = [sender EXCEPT ![s] =
                        [sd EXCEPT !.pc = "sleep",
                                   !.wakeAt = poolNow +
                                       Min(HTTP_ENDPOINT_POOL_HEALTHY_POLL_INTERVAL,
                                           sd.ghDeadline - poolNow)]]
                  /\ UNCHANGED <<healthy, endpoint, epPool, poolStats>>

(***************************************************************************)
(* HttpEndpointPool.SendBuffer                                             *)
(***************************************************************************)
\* SendBuffer(b, timeout, _) up to the first GetCurrentHealthy
SendBuffer(s, b, timeout) ==
    /\ sender[s].pc \in {"idle", "ret"}
    /\ poolSd.sends < MaxCalls
    /\ sender' = [sender EXCEPT ![s] =
           [IdleSender EXCEPT
               !.pc = "get", !.b = b, !.attempt = 1,
               !.body = NewBytesReadSeekCloser(b),
               !.deadline = poolNow + (IF timeout < 0 THEN sendBufferTimeout
                                                      ELSE timeout)]]
    /\ poolSd' = [poolSd EXCEPT !.sends = @ + 1]
    /\ UNCHANGED <<healthy, endpoint, epPool, poolStats, poolNow, probes>>
    /\ UNCHANGED nonPoolVars

\* ep := epPool.GetCurrentHealthy(maxWait), for attempt 1, 2, ...
SendGetHealthy(s) ==
    /\ sender[s].pc = "get"
    /\ GetCurrentHealthy(s, [sender[s] EXCEPT
           !.ghDeadline = poolNow + Max(0, sender[s].deadline - poolNow),
           !.allEmpty = TRUE])
    /\ UNCHANGED <<poolNow, probes, poolSd>>
    /\ UNCHANGED nonPoolVars

\* time.Sleep in the wait loop of GetCurrentHealthy is over
SendWake(s) ==
    /\ sender[s].pc = "sleep"
    /\ poolNow >= sender[s].wakeAt
    /\ GetCurrentHealthy(s, sender[s])
    /\ UNCHANGED <<poolNow, probes, poolSd>>
    /\ UNCHANGED nonPoolVars

Sent_always(o) == TRUE

Sent(o) == ~o.err /\ o.status # 0

Success(o) == Sent(o) /\ o.status \in HttpEndpointPoolSuccessCodes

NonRetryable_retry503(o) == Sent(o) /\ o.status \notin {503}

NonRetryable(o) == Sent(o) /\ o.status \notin HttpEndpointPoolRetryCodes

(***************************************************************************)
(* HttpEndpointPool.ReportError                                            *)
(***************************************************************************)
ReportError_nocheck(l, es, pool, e, timeNow) ==
    LET es1 == [es EXCEPT ![e].numErrors = @ + 1, ![e].errorTs = timeNow]
    IN  IF es1[e].numErrors < markUnhealthyThreshold(e)
        THEN IF l.head # l.tail
             THEN LET r == MoveToTail(l, es1, e)
                  IN  [l |-> r.l, es |-> r.es,
                       pool |-> [pool EXCEPT !.firstUse = TRUE], started |-> 0]
             ELSE [l |-> l, es |-> es1, pool |-> pool, started |-> 0]
        ELSE LET r == Remove(l, es1, e)
             IN  [l |-> r.l, es |-> [r.es EXCEPT ![e].healthy = FALSE],
                  pool |-> pool,
                  started |-> IF pool.shutdown THEN 0 ELSE 1]

\* ReportError(ep): the lists, the pool and the number of probes started
ReportError(l, es, pool, e, timeNow) ==
    LET es1 == [es EXCEPT ![e].numErrors = @ + 1, ![e].errorTs = timeNow]
    IN  IF ~es1[e].healthy
        THEN [l |-> l, es |-> es1, pool |-> pool, started |-> 0]
        ELSE IF es1[e].numErrors < markUnhealthyThreshold(e)
        THEN IF l.head # l.tail
             THEN LET r == MoveToTail(l, es1, e)
                  IN  [l |-> r.l, es |-> r.es,
                       pool |-> [pool EXCEPT !.firstUse = TRUE], started |-> 0]
             ELSE [l |-> l, es |-> es1, pool |-> pool, started |-> 0]
        ELSE LET r == Remove(l, es1, e)
             IN  [l |-> r.l, es |-> [r.es EXCEPT ![e].healthy = FALSE],
                  pool |-> pool,
                  started |-> IF pool.shutdown THEN 0 ELSE 1]

\* client.Do(req) returns o, the transport having read the body up to k and
\* closed it; then SendBuffer returns, or reports the error of the endpoint
\* and goes for the next attempt
SendDo(s, o, k) ==
    /\ sender[s].pc = "do"
    /\ k \in sender[s].body.pos..Len(sender[s].b)
    /\ LET sd == [sender[s] EXCEPT !.body = [pos |-> k, closed |-> TRUE],
                                   !.last = o]
       IN  IF Success(o)
           THEN /\ sender' = [sender EXCEPT ![s] = Returned(sd, "ok")]
                /\ UNCHANGED <<healthy, endpoint, epPool, probes>>
           ELSE IF NonRetryable(o)
           THEN /\ sender' = [sender EXCEPT ![s] = Returned(sd, "status")]
                /\ UNCHANGED <<healthy, endpoint, epPool, probes>>
           ELSE LET r == ReportError(healthy, endpoint, epPool, sd.ep, poolNow)
                IN  /\ sd.attempt <= MaxAttempts
                    /\ healthy' = r.l
                    /\ endpoint' = r.es
                    /\ epPool' = r.pool
                    /\ probes' = [probes EXCEPT ![sd.ep] = @ + r.started]
                    /\ sender' = [sender EXCEPT ![s] =
                           [sd EXCEPT !.pc = "get", !.attempt = @ + 1,
                                      !.ep = NoEp,
                                      !.carried = <<>>, !.putTs = 0]]
    /\ UNCHANGED <<poolStats, poolNow, poolSd>>
    /\ UNCHANGED nonPoolVars

(***************************************************************************)
(* HttpEndpointPool.HealthCheck                                            *)
(***************************************************************************)
\* case <-ticker.C: client.Do(req) returns o; on success MoveToHealthy(ep)
\* and the goroutine returns
HealthCheck(e, o) ==
    /\ probes[e] > 0
    /\ IF Success(o)
       THEN /\ LET r == MoveToHealthy(healthy, endpoint, e)
               IN  /\ healthy' = r.l
                   /\ endpoint' = r.es
            /\ probes' = [probes EXCEPT ![e] = @ - 1]
       ELSE UNCHANGED <<healthy, endpoint, probes>>
    /\ UNCHANGED <<epPool, poolStats, poolNow, sender, poolSd>>
    /\ UNCHANGED nonPoolVars

\* case <-epPool.ctx.Done()
HealthCheckCancel(e) ==
    /\ probes[e] > 0
    /\ epPool.ctxDone
    /\ probes' = [probes EXCEPT ![e] = @ - 1]
    /\ UNCHANGED <<healthy, endpoint, epPool, poolStats, poolNow, sender, poolSd>>
    /\ UNCHANGED nonPoolVars

(***************************************************************************)
(* HttpEndpointPool.Shutdown                                               *)
(***************************************************************************)
\* Shutdown up to epPool.wg.Wait()
PoolShutdown ==
    /\ IF epPool.shutdown
       THEN UNCHANGED <<epPool, poolSd>>
       ELSE /\ poolSd' = [poolSd EXCEPT !.waiting = TRUE]
            /\ epPool' = [epPool EXCEPT !.shutdown = TRUE, !.ctxDone = TRUE]
    /\ UNCHANGED <<healthy, endpoint, poolStats, poolNow, sender, probes>>
    /\ UNCHANGED nonPoolVars

\* a Shutdown that does not wait for the HealthCheck goroutines
PoolWgDone_nowait == TRUE

\* no HealthCheck goroutine is left
PoolWgDone == \A e \in Endpoints : probes[e] = 0

\* epPool.wg.Wait() returns
PoolShutdownReturn ==
    /\ poolSd.waiting
    /\ PoolWgDone
    /\ poolSd' = [poolSd EXCEPT !.waiting = FALSE]
    /\ UNCHANGED <<healthy, endpoint, epPool, poolStats, poolNow, sender, probes>>
    /\ UNCHANGED nonPoolVars

\* time passes
PoolTick ==
    /\ poolNow < PoolMaxNow
    /\ poolNow' = poolNow + HTTP_ENDPOINT_POOL_HEALTHY_POLL_INTERVAL
    /\ UNCHANGED <<healthy, endpoint, epPool, poolStats, sender, probes, poolSd>>
    /\ UNCHANGED nonPoolVars

PoolNext ==
    \/ \E s \in Senders, b \in SendBufs, t \in Timeouts : SendBuffer(s, b, t)
    \/ \E s \in Senders : SendGetHealthy(s)
    \/ \E s \in Senders : SendWake(s)
    \/ \E s \in Senders, o \in Outcomes, k \in 0..MaxBufLen : SendDo(s, o, k)
    \/ \E e \in Endpoints, o \in Outcomes : HealthCheck(e, o)
    \/ \E e \in Endpoints : HealthCheckCancel(e)
    \/ PoolShutdown
    \/ PoolShutdownReturn
    \/ PoolTick

(***************************************************************************)
(* Properties of the HTTP endpoint pool                                    *)
(***************************************************************************)
OnHealthyList(e) == e \in SeqToSet(HealthyList)

\* the step is one of SendBuffer call s, made from position pc
SenderStep(s, pcs) == sender[s].pc \in pcs /\ sender'[s] # sender[s]

\* C2: while the pool is not shut down, every endpoint is either on the
\* healthy list (and flagged healthy) with no health probe, or off the list
\* with exactly one health probe that has still to bring it back; concurrent
\* ReportError calls for one endpoint start one probe, not two and not none.
C2_EndpointOwnership ==
    ~epPool.shutdown =>
        \A e \in Endpoints :
            /\ endpoint[e].healthy <=> OnHealthyList(e)
            /\ probes[e] = IF OnHealthyList(e) THEN 0 ELSE 1

\* an endpoint taken out by one caller and reported again by another caller
\* whose PUT to it was under way
C2_Witness ==
    /\ ~epPool.shutdown
    /\ \E e \in Endpoints :
          /\ ~endpoint[e].healthy
          /\ endpoint[e].numErrors > markUnhealthyThreshold(e)
          /\ probes[e] = 1

\* C6: every attempt of SendBuffer, the first and the retries, carries the
\* complete buffer; an attempt that fails with a transport error is reported
\* for its endpoint and followed by another attempt, which goes to the head
\* of the healthy list at that moment; 200 or 204 ends the call with success.
C6_FailoverRewinds ==
    /\ [](\A s \in Senders :
             sender[s].pc = "do" => sender[s].carried = sender[s].b)
    /\ [][\A s \in Senders :
            /\ SenderStep(s, {"do"}) /\ sender'[s].last.err =>
                  /\ sender'[s].pc = "get"
                  /\ sender'[s].attempt = sender[s].attempt + 1
                  /\ endpoint'[sender[s].ep].numErrors =
                         endpoint[sender[s].ep].numErrors + 1
                  /\ endpoint'[sender[s].ep].errorTs = poolNow
            /\ SenderStep(s, {"do"}) /\ Success(sender'[s].last) =>
                  sender'[s].pc = "ret" /\ sender'[s].result = "ok"
            /\ SenderStep(s, {"get", "sleep"}) /\ sender'[s].pc = "do" =>
                  /\ sender'[s].ep = healthy'.head
                  /\ sender'[s].ep # NoEp
                  /\ endpoint'[sender'[s].ep].healthy]_vars

\* a retry under way, with the whole buffer in its body
C6_Witness ==
    \E s \in Senders :
        /\ sender[s].pc = "do"
        /\ sender[s].attempt > 1
        /\ Len(sender[s].b) = MaxBufLen
        /\ sender[s].carried = sender[s].b

\* C7: a response with a status outside the success codes and outside the
\* retry set ends SendBuffer at once with an error carrying that status:
\* no further attempt, no ReportError, the endpoints, the healthy list and
\* the health probes are as they were.
C7_NonRetryableStatus ==
    [][\A s \in Senders :
          /\ SenderStep(s, {"do"})
          /\ ~sender'[s].last.err
          /\ sender'[s].last.status \notin HttpEndpointPoolSuccessCodes
          /\ sender'[s].last.status \notin HttpEndpointPoolRetryCodes
          => /\ sender'[s].pc = "ret"
             /\ sender'[s].result = "status"
             /\ sender'[s].puts = sender[s].puts
             /\ endpoint' = endpoint
             /\ healthy' = healthy
             /\ probes' = probes]_vars

\* a call that ended on a 503
C7_Witness ==
    \E s \in Senders :
        /\ sender[s].pc = "ret"
        /\ sender[s].result = "status"
        /\ sender[s].last = [err |-> FALSE, status |-> 503]

\* C8 as stated: every outcome other than 200 and 204 is retried, so a call
\* ends only with success or for want of a healthy endpoint.
C8_AllFailuresRetried ==
    \A s \in Senders :
        sender[s].pc = "ret" => sender[s].result \in {"ok", "noHealthyEp"}

\* C8, amended: a transport error is the outcome that SendBuffer retries; a
\* response ends the call, with success for 200 and 204 and with an error
\* for any other status.
C8_OnlyTransportErrorsRetried ==
    \A s \in Senders :
        sender[s].last # NoOutcome =>
            CASE sender[s].pc \in {"get", "sleep", "do"} -> sender[s].last.err
              [] sender[s].pc = "ret" /\ sender[s].result = "noHealthyEp" ->
                     sender[s].last.err
              [] sender[s].pc = "ret" /\ sender[s].result = "ok" ->
                     /\ ~sender[s].last.err
                     /\ sender[s].last.status \in HttpEndpointPoolSuccessCodes
              [] sender[s].pc = "ret" /\ sender[s].result = "status" ->
                     /\ ~sender[s].last.err
                     /\ sender[s].last.status \notin HttpEndpointPoolSuccessCodes
              [] OTHER -> FALSE

\* the attempt that follows a transport error
C8_Witness ==
    \E s \in Senders :
        /\ sender[s].pc = "do"
        /\ sender[s].attempt = 2
        /\ sender[s].last = [err |-> TRUE, status |-> 0]

\* C9: GetCurrentHealthy returns nil only if the healthy list was empty at
\* each of its polls, and not before its deadline unless the pool is shut
\* down; with the list empty at the deadline SendBuffer returns the
\* no-healthy-endpoint error, having issued no PUT since and having
\* incremented the no-healthy-endpoint counter by one; nothing else changes
\* that counter.
C9_NoHealthyEndpoint ==
    /\ [](\A s \in Senders :
             sender[s].pc = "ret" /\ sender[s].result = "noHealthyEp" =>
                 sender[s].allEmpty)
    /\ [][/\ \A s \in Senders :
               /\ SenderStep(s, {"get", "sleep"})
                  /\ sender'[s].pc = "ret" =>
                     /\ sender'[s].result = "noHealthyEp"
                     /\ healthy.head = NoEp
                     /\ poolNow >= sender[s].deadline \/ epPool.shutdown
                     /\ sender'[s].puts = sender[s].puts
                     /\ poolStats'.noHealthyEp = poolStats.noHealthyEp + 1
               /\ SenderStep(s, {"get", "sleep"})
                  /\ healthy.head = NoEp
                  /\ poolNow >= sender[s].deadline =>
                     sender'[s].pc = "ret"
          /\ poolStats' # poolStats =>
                \E s \in Senders :
                    SenderStep(s, {"get", "sleep"}) /\ sender'[s].pc = "ret"]_vars

\* a call that found the list empty from its start to its deadline
C9_Witness ==
    /\ ~epPool.shutdown
    /\ poolStats.noHealthyEp > 0
    /\ \E s \in Senders :
          /\ sender[s].pc = "ret"
          /\ sender[s].result = "noHealthyEp"
          /\ sender[s].puts = 0

\* C10: SendBuffer retries only until its deadline: after a failed attempt
\* no further PUT is started once the deadline of the call has passed.
C10_NoPutAfterDeadline ==
    \A s \in Senders :
        sender[s].pc = "do" /\ sender[s].attempt > 1 =>
            sender[s].putTs <= sender[s].deadline

\* the healthy list after the step
HealthyListNext == ListFrom(endpoint', healthy'.head, NumEndpoints + 1)

\* sequence q without e
Without(q, e) == SelectSeq(q, LAMBDA x : x # e)

\* the step is a PUT of call s that fails with a transport error, with the
\* effect of ReportError on its endpoint as the claim C11 gives it;
\* startedOnShutdown is the number of probes started on a pool shut down
ReportErrorStep(s, startedOnShutdown) ==
    SenderStep(s, {"do"}) /\ sender'[s].last.err =>
        LET e == sender[s].ep
            n == endpoint[e].numErrors
        IN  /\ endpoint'[e].numErrors = n + 1
            /\ IF ~endpoint[e].healthy
               THEN /\ ~endpoint'[e].healthy
                    /\ HealthyListNext = HealthyList
                    /\ probes' = probes
               ELSE IF n + 1 < markUnhealthyThreshold(e)
               THEN /\ endpoint'[e].healthy
                    /\ HealthyListNext =
                           IF Len(HealthyList) > 1
                           THEN Append(Without(HealthyList, e), e)
                           ELSE HealthyList
                    /\ probes' = probes
               ELSE /\ ~endpoint'[e].healthy
                    /\ HealthyListNext = Without(HealthyList, e)
                    /\ probes' = [probes EXCEPT ![e] =
                           @ + (IF epPool.shutdown THEN startedOnShutdown
                                                   ELSE 1)]

\* no endpoint is unhealthy with an error count below its threshold
UnhealthyAtThreshold ==
    \A e \in Endpoints :
        ~endpoint[e].healthy =>
            endpoint[e].numErrors >= markUnhealthyThreshold(e)

\* C11 as stated: ReportError adds one to the error count; below the
\* threshold a healthy endpoint stays healthy and goes to the tail of a list
\* of more than one; at the threshold it leaves the list, is marked unhealthy
\* and a health probe is started; an unhealthy endpoint only gets its count
\* incremented; no endpoint is unhealthy below its threshold.
C11_ThresholdProbeAlways ==
    /\ []UnhealthyAtThreshold
    /\ [][\A s \in Senders : ReportErrorStep(s, 1)]_vars

\* C11, amended: as stated, except that at the threshold the health probe
\* is started only if the pool is not shut down.
C11_ThresholdStateMachine ==
    /\ []UnhealthyAtThreshold
    /\ [][\A s \in Senders : ReportErrorStep(s, 0)]_vars

\* an endpoint of threshold 2 that went to the tail on its first error and
\* was taken out, with a probe, on its second
C11_Witness ==
    /\ ~epPool.shutdown
    /\ \E e \in Endpoints :
          /\ markUnhealthyThreshold(e) = 2
          /\ ~endpoint[e].healthy
          /\ endpoint[e].numErrors = 2
          /\ probes[e] = 1

\* the step puts endpoint e back to healthy
RecoveryStep(e) == ~endpoint[e].healthy /\ endpoint'[e].healthy

\* what a recovery is: the work of the one probe of e, which is then gone; e
\* is appended to the healthy list, the others keeping their places, with
\* error count 0
ProbeRecovers(e) ==
    RecoveryStep(e) =>
        /\ probes[e] = 1
        /\ probes'[e] = 0
        /\ HealthyListNext = Append(HealthyList, e)
        /\ endpoint'[e].numErrors = 0

\* an endpoint comes onto the healthy list by a recovery only
StaysOffList(e) ==
    (~OnHealthyList(e) /\ e \in SeqToSet(HealthyListNext)) => RecoveryStep(e)

\* an endpoint has one probe at most, and none while it is healthy
OneProbe ==
    \A e \in Endpoints :
        /\ probes[e] <= 1
        /\ endpoint[e].healthy => probes[e] = 0 /\ OnHealthyList(e)
        /\ ~endpoint[e].healthy => ~OnHealthyList(e)

\* C12: an unhealthy endpoint stays off the healthy list until its health
\* probe gets 200 or 204; that success appends it to the tail of the healthy
\* list, behind the endpoints that are there, in their order, healthy and
\* with error count 0, and it ends the probe, the only one of the endpoint
C12_ProbeRecovery ==
    /\ []OneProbe
    /\ [][\A e \in Endpoints : ProbeRecovers(e) /\ StaysOffList(e)]_vars

\* endpoint 2 failed after the start, which took it off the list, and is back
\* behind endpoint 1, with no error and no probe
C12_Witness ==
    /\ endpoint[2].errorTs > 0
    /\ endpoint[2].healthy
    /\ endpoint[2].numErrors = 0
    /\ probes[2] = 0
    /\ HealthyList = <<1, 2>>


\* the step is GetCurrentHealthy of SendBuffer call s returning an endpoint
SelectStep(s) == SenderStep(s, {"get", "sleep"}) /\ sender'[s].pc = "do"

\* the step is ReportError of call s moving its endpoint, which stays
\* healthy, to the tail of a list of more than one
ErrorRotationStep(s) ==
    /\ SenderStep(s, {"do"})
    /\ sender'[s].pc = "get"
    /\ endpoint[sender[s].ep].healthy
    /\ endpoint[sender[s].ep].numErrors + 1 < markUnhealthyThreshold(sender[s].ep)
    /\ Len(HealthyList) > 1

HeadChanged == Head(HealthyListNext) # Head(HealthyList)

\* the rotation policy, by healthy_rotate_interval
RotateDue ==
    \/ epPool.healthyRotateInterval = 0
    \/ /\ epPool.healthyRotateInterval > 0
       /\ poolNow - epPool.healthyHeadChangeTs >= epPool.healthyRotateInterval

\* a selection moves the head to the tail when the policy says so, the list
\* has more than one endpoint and it is not a first use; it returns the head
\* of the list it leaves
SelectRotates(s) ==
    SelectStep(s) =>
        LET rot == RotateDue /\ Len(HealthyList) > 1 /\ ~epPool.firstUse
        IN  /\ HealthyListNext =
                   IF rot THEN Append(Tail(HealthyList), Head(HealthyList))
                   ELSE HealthyList
            /\ sender'[s].ep = Head(HealthyListNext)
            /\ epPool'.healthyHeadChangeTs =
                   IF rot \/ epPool.firstUse THEN poolNow
                   ELSE epPool.healthyHeadChangeTs

\* first use: no endpoint was selected since the pool was created or since
\* the last error rotation that satisfies changed
FirstUseSince(changed) ==
    epPool'.firstUse =
        IF \E s \in Senders : SelectStep(s) THEN FALSE
        ELSE IF \E s \in Senders : ErrorRotationStep(s) /\ changed THEN TRUE
        ELSE epPool.firstUse

\* C13 as stated: a selection rotates by the policy, but not on a list of one
\* endpoint and not on a first use, which is the first selection after pool
\* creation or after an error rotation changed the head
C13_RotationPolicy ==
    [][(\A s \in Senders : SelectRotates(s)) /\ FirstUseSince(HeadChanged)]_vars

\* what the code does: every error rotation, the head changed or not, makes
\* the next selection a first use
C13_RotationByFirstUse ==
    [][(\A s \in Senders : SelectRotates(s)) /\ FirstUseSince(TRUE)]_vars


\* Shutdown has returned
PoolShutdownDone == epPool.shutdown /\ ~poolSd.waiting

\* once Shutdown has returned no HealthCheck goroutine is left
ProbesExited == PoolShutdownDone => \A e \in Endpoints : probes[e] = 0

\* on a pool shut down no step starts a HealthCheck goroutine
NoProbeStarted ==
    epPool.shutdown => \A e \in Endpoints : probes'[e] <= probes[e]

\* on a pool shut down, a ReportError that reaches the threshold of a healthy
\* endpoint takes it off the healthy list and leaves the probes as they are
OnlyRemoves(s) ==
    \A e \in Endpoints :
        /\ epPool.shutdown
        /\ SenderStep(s, {"do"}) /\ sender'[s].last.err
        /\ e = sender[s].ep
        /\ endpoint[e].healthy
        /\ endpoint[e].numErrors + 1 >= markUnhealthyThreshold(e)
        => /\ ~endpoint'[e].healthy
           /\ HealthyListNext = Without(HealthyList, e)
           /\ probes' = probes

\* on a pool shut down, the GetCurrentHealthy of call s that sleeps on an
\* empty healthy list returns nil when it wakes, whatever its deadline
WaitEndsOnShutdown(s) ==
    /\ epPool.shutdown
    /\ healthy.head = NoEp
    /\ SenderStep(s, {"sleep"})
    => /\ sender'[s].pc = "ret"
       /\ sender'[s].result = "noHealthyEp"

\* on a pool shut down no step makes Shutdown wait again or takes the
\* shutdown back
ShutdownOnce ==
    epPool.shutdown =>
        /\ epPool'.shutdown /\ epPool'.ctxDone
        /\ poolSd'.waiting => poolSd.waiting

\* C37: Shutdown returns only after every health probe goroutine has
\* exited; after Shutdown no probe is started (a ReportError that reaches the
\* threshold only removes the endpoint), a GetCurrentHealthy that waits on an
\* empty healthy list returns without waiting for its deadline, and a second
\* Shutdown changes nothing.
C37_ShutdownObserved ==
    /\ []ProbesExited
    /\ [][/\ NoProbeStarted
          /\ ShutdownOnce
          /\ \A s \in Senders : OnlyRemoves(s) /\ WaitEndsOnShutdown(s)]_vars

\* Shutdown has returned after the probes of all the endpoints were
\* cancelled, while a GetCurrentHealthy sleeps on the empty healthy list with
\* its deadline later than its next wake-up
C37_Witness ==
    /\ PoolShutdownDone
    /\ healthy.head = NoEp
    /\ \A e \in Endpoints : probes[e] = 0 /\ ~endpoint[e].healthy
    /\ \E s \in Senders :
          /\ sender[s].pc = "sleep"
          /\ sender[s].ghDeadline > sender[s].wakeAt

(***************************************************************************)
(*                           COMPRESSOR POOL                               *)
(***************************************************************************)
\* compression factors are float64 in the code; here in units of 1/CfUnit
CfUnit == 1000

INITIAL_COMPRESSION_FACTOR == 2 * CfUnit

COMPRESSION_FACTOR_EXP_DECAY_ALPHA == (8 * CfUnit) \div 10

COMPRESSED_BATCH_MIN_SIZE_FOR_CF == 128

\* pool config: batch_target_size, in bytes
batchTargetSize == 200

\* batch_target_size as units.RAMInBytes parses it: "0" is accepted
BatchTargetSizes == {0, batchTargetSize}

\* pool config: flush_interval > 0, or 0 for no time flush
FlushIntervals == {0, 5000}

Compressors == 1..NumCompressors

BufIds == 1..NumBufs

\* buf.Len() of the i-th buffer queued; every third one is empty
BufLen(i) == CASE i % 3 = 1 -> 300
               [] i % 3 = 2 -> 0
               [] OTHER -> 150

\* gzBuf.Len() after gzWriter.Close() is the number of bytes written divided
\* by a ratio that depends on the data
GzRatios == {1, 4}

nonCompVars == <<schedVars, poolVars, creditVars, wallVars, bufVars, appVars>>

NewCompressorStats ==
    [readCount |-> 0, readByteCount |-> 0, sendCount |-> 0,
     sendByteCount |-> 0, timeoutFlushCount |-> 0, sendErrorCount |-> 0]

\* int(float64(batchTargetSize) * estimatedCF)
BatchReadByteLimit(estimatedCF) ==
    (compPool.batchTargetSize * estimatedCF) \div CfUnit

\* the locals of loop() before the for loop; pc is "none" until Start
NewCompressor ==
    [pc |-> "none", gzBuf |-> <<>>, gzWriter |-> "nil",
     flushTimer |-> "stopped", timerSet |-> FALSE,
     batchReadCount |-> 0, batchReadByteCount |-> 0, batchTimeoutCount |-> 0,
     estimatedCF |-> INITIAL_COMPRESSION_FACTOR,
     batchReadByteLimit |-> BatchReadByteLimit(INITIAL_COMPRESSION_FACTOR)]

\* NewCompressorPool with batch_target_size targetSize
CompInitVarsFor(flushInterval, targetSize) ==
    /\ compPool = [state |-> "Created", flushInterval |-> flushInterval,
                   batchTargetSize |-> targetSize, waiting |-> FALSE]
    /\ metricsQueue = [bufs |-> <<>>, closed |-> FALSE]
    /\ comp = [c \in Compressors |-> NewCompressor]
    /\ compStats = [c \in Compressors |-> NewCompressorStats]
    /\ delivered = [i \in BufIds |-> 0]
    /\ queued = 0

\* NewCompressorPool with the batch_target_size of the other specifications
CompInitVars(flushInterval) == CompInitVarsFor(flushInterval, batchTargetSize)

(***************************************************************************)
(* CompressorPool.QueueBuf, Start, Shutdown                                *)
(***************************************************************************)
\* pool.metricsQueue <- b, for the next buffer
QueueBuf ==
    /\ queued < NumBufs
    /\ ~metricsQueue.closed
    /\ Len(metricsQueue.bufs) < MetricsQueueSize
    /\ queued' = queued + 1
    /\ metricsQueue' = [metricsQueue EXCEPT !.bufs = Append(@, queued + 1)]
    /\ UNCHANGED <<compPool, comp, compStats, delivered>>
    /\ UNCHANGED nonCompVars

CanStart(currentState) == currentState = "Created"

\* Start(sender), sender # nil
CompStart ==
    /\ IF CanStart(compPool.state)
       THEN /\ compPool' = [compPool EXCEPT !.state = "Running"]
            /\ comp' = [c \in Compressors |-> [comp[c] EXCEPT !.pc = "select"]]
       ELSE UNCHANGED <<compPool, comp>>
    /\ UNCHANGED <<metricsQueue, compStats, delivered, queued>>
    /\ UNCHANGED nonCompVars

\* Shutdown up to pool.wg.Wait()
CompShutdown ==
    /\ IF compPool.state # "Stopped"
       THEN /\ compPool' = [compPool EXCEPT !.state = "Stopped",
                                            !.waiting = TRUE]
            /\ metricsQueue' = [metricsQueue EXCEPT !.closed = TRUE]
       ELSE UNCHANGED <<compPool, metricsQueue>>
    /\ UNCHANGED <<comp, compStats, delivered, queued>>
    /\ UNCHANGED nonCompVars

\* no loop() is left
CompWgDone == \A c \in Compressors : comp[c].pc # "select"

\* pool.wg.Wait() returns
CompShutdownReturn ==
    /\ compPool.waiting
    /\ CompWgDone
    /\ compPool' = [compPool EXCEPT !.waiting = FALSE]
    /\ UNCHANGED <<metricsQueue, comp, compStats, delivered, queued>>
    /\ UNCHANGED nonCompVars

(***************************************************************************)
(* CompressorPool.loop                                                     *)
(***************************************************************************)
\* a loop that leaves the flush timer running when it sends
StopFlushTimer_never(cp) == cp

\* if timerSet && !flushTimer.Stop() { <-flushTimer.C }
StopFlushTimer(cp) ==
    IF cp.timerSet THEN [cp EXCEPT !.flushTimer = "stopped"] ELSE cp

FirstRead_keep(cp, flushInterval) ==
    LET cp1 == [cp EXCEPT !.gzWriter = "open"]
    IN  IF flushInterval > 0
        THEN [cp1 EXCEPT !.flushTimer = "running", !.timerSet = TRUE]
        ELSE cp1

\* the first read of a batch: gzBuf.Reset(), a gzWriter on gzBuf, and the
\* flush timer
FirstRead(cp, flushInterval) ==
    LET cp1 == [cp EXCEPT !.gzBuf = <<>>, !.gzWriter = "open"]
    IN  IF flushInterval > 0
        THEN [cp1 EXCEPT !.flushTimer = "running", !.timerSet = TRUE]
        ELSE cp1

\* case buf, isOpen = <-MetricsQueue, up to doSend; buf = 0 stands for the
\* nil received from the closed queue
ReadBuf(cp, buf, flushInterval) ==
    IF buf # 0 /\ BufLen(buf) > 0
    THEN LET cp1 == IF cp.batchReadCount = 0
                    THEN FirstRead(cp, flushInterval) ELSE cp
         IN  [cp1 EXCEPT !.batchReadCount = @ + 1,
                         !.batchReadByteCount = @ + BufLen(buf),
                         !.gzBuf = Append(@, buf)]
    ELSE cp

DoSend_bySize(isOpen, batchReadByteCount, batchReadByteLimit) ==
    batchReadByteCount >= batchReadByteLimit

DoSend(isOpen, batchReadByteCount, batchReadByteLimit) ==
    \/ ~isOpen /\ batchReadByteCount > 0
    \/ batchReadByteCount >= batchReadByteLimit

\* estimatedCF after a batch of read bytes compressed to sent bytes
UpdatedCF(estimatedCF, read, sent) ==
    IF sent >= COMPRESSED_BATCH_MIN_SIZE_FOR_CF
    THEN ((CfUnit - COMPRESSION_FACTOR_EXP_DECAY_ALPHA) * ((read * CfUnit) \div sent)
          + COMPRESSION_FACTOR_EXP_DECAY_ALPHA * estimatedCF) \div CfUnit
    ELSE estimatedCF

\* a loop that keeps the batch for the next send when the sender failed
SendBatch_retry(cp, st, dl, gzLen, ok) ==
    LET cp1 == [StopFlushTimer(cp) EXCEPT !.gzWriter = "closed"]
        cf  == UpdatedCF(cp.estimatedCF, cp.batchReadByteCount, gzLen)
    IN  [cp |-> IF ok
                THEN [cp1 EXCEPT !.estimatedCF = cf,
                                 !.batchReadByteLimit = BatchReadByteLimit(cf),
                                 !.batchReadCount = 0, !.batchReadByteCount = 0,
                                 !.batchTimeoutCount = 0, !.timerSet = FALSE]
                ELSE [cp1 EXCEPT !.batchTimeoutCount = 0, !.timerSet = FALSE],
         st |-> [st EXCEPT
                    !.readCount = @ + cp.batchReadCount,
                    !.readByteCount = @ + cp.batchReadByteCount,
                    !.sendCount = @ + 1,
                    !.sendByteCount = @ + (IF ok THEN gzLen ELSE 0),
                    !.timeoutFlushCount = @ + cp.batchTimeoutCount,
                    !.sendErrorCount = @ + (IF ok THEN 0 ELSE 1)],
         dl |-> [i \in BufIds |-> dl[i] + Count(cp.gzBuf, i)]]

\* if doSend { ... }: the locals, the stats and the deliveries after the batch
\* was compressed to gzLen bytes and sendFn returned nil (ok) or an error
SendBatch(cp, st, dl, gzLen, ok) ==
    LET cp1 == [StopFlushTimer(cp) EXCEPT !.gzWriter = "closed"]
        cf  == UpdatedCF(cp.estimatedCF, cp.batchReadByteCount, gzLen)
    IN  [cp |-> [cp1 EXCEPT !.estimatedCF = cf,
                            !.batchReadByteLimit = BatchReadByteLimit(cf),
                            !.batchReadCount = 0, !.batchReadByteCount = 0,
                            !.batchTimeoutCount = 0, !.timerSet = FALSE],
         st |-> [st EXCEPT
                    !.readCount = @ + cp.batchReadCount,
                    !.readByteCount = @ + cp.batchReadByteCount,
                    !.sendCount = @ + 1,
                    !.sendByteCount = @ + (IF ok THEN gzLen ELSE 0),
                    !.timeoutFlushCount = @ + cp.batchTimeoutCount,
                    !.sendErrorCount = @ + (IF ok THEN 0 ELSE 1)],
         dl |-> [i \in BufIds |-> dl[i] + Count(cp.gzBuf, i)]]

\* one pass of the loop body after the select, for the locals cp;
\* gzWriter.Close() on the nil gzWriter is a nil pointer dereference
AfterSelect(c, cp, doSend, isOpen, ratio, ok) ==
    IF doSend /\ cp.gzWriter = "nil"
    THEN /\ comp' = [comp EXCEPT ![c] = [cp EXCEPT !.pc = "panic"]]
         /\ UNCHANGED <<compStats, delivered>>
    ELSE LET r == IF doSend
                  THEN SendBatch(cp, compStats[c], delivered,
                                 cp.batchReadByteCount \div ratio, ok)
                  ELSE [cp |-> cp, st |-> compStats[c], dl |-> delivered]
         IN  /\ comp' = [comp EXCEPT ![c] =
                    [r.cp EXCEPT !.pc = IF isOpen THEN "select" ELSE "done"]]
             /\ compStats' = [compStats EXCEPT ![c] = r.st]
             /\ delivered' = r.dl

\* case buf, isOpen = <-MetricsQueue: a buffer is received
CompRecv(c, ratio, ok) ==
    /\ comp[c].pc = "select"
    /\ metricsQueue.bufs # <<>>
    /\ LET cp == ReadBuf(comp[c], Head(metricsQueue.bufs), compPool.flushInterval)
       IN  AfterSelect(c, cp,
                       DoSend(TRUE, cp.batchReadByteCount, cp.batchReadByteLimit),
                       TRUE, ratio, ok)
    /\ metricsQueue' = [metricsQueue EXCEPT !.bufs = Tail(@)]
    /\ UNCHANGED <<compPool, queued>>
    /\ UNCHANGED nonCompVars

\* case buf, isOpen = <-MetricsQueue: the queue is closed and drained; the
\* loop ends and the deferred wg.Done() runs
CompRecvClosed(c, ratio, ok) ==
    /\ comp[c].pc = "select"
    /\ metricsQueue.bufs = <<>>
    /\ metricsQueue.closed
    /\ LET cp == ReadBuf(comp[c], 0, compPool.flushInterval)
       IN  AfterSelect(c, cp,
                       DoSend(FALSE, cp.batchReadByteCount, cp.batchReadByteLimit),
                       FALSE, ratio, ok)
    /\ UNCHANGED <<compPool, metricsQueue, queued>>
    /\ UNCHANGED nonCompVars

\* the err != nil branch after gzWriter.Write: the timer is stopped, the batch
\* is forgotten and the gzWriter is dropped
WriteError(cp) ==
    [StopFlushTimer(cp) EXCEPT !.batchReadCount = 0, !.batchReadByteCount = 0,
                               !.batchTimeoutCount = 0, !.timerSet = FALSE,
                               !.gzWriter = "nil"]

\* case buf, isOpen = <-MetricsQueue: a non-empty buffer is received and
\* gzWriter.Write returns an error
CompRecvWriteError(c, ratio, ok) ==
    /\ comp[c].pc = "select"
    /\ metricsQueue.bufs # <<>>
    /\ BufLen(Head(metricsQueue.bufs)) > 0
    /\ LET cp == WriteError(ReadBuf(comp[c], Head(metricsQueue.bufs),
                                    compPool.flushInterval))
       IN  AfterSelect(c, cp,
                       DoSend(TRUE, cp.batchReadByteCount, cp.batchReadByteLimit),
                       TRUE, ratio, ok)
    /\ metricsQueue' = [metricsQueue EXCEPT !.bufs = Tail(@)]
    /\ UNCHANGED <<compPool, queued>>
    /\ UNCHANGED nonCompVars

\* flushInterval has passed since flushTimer.Reset
CompTimerExpire(c) ==
    /\ comp[c].flushTimer = "running"
    /\ comp' = [comp EXCEPT ![c].flushTimer = "fired"]
    /\ UNCHANGED <<compPool, metricsQueue, compStats, delivered, queued>>
    /\ UNCHANGED nonCompVars

\* case <-flushTimer.C
CompFlush(c, ratio, ok) ==
    /\ comp[c].pc = "select"
    /\ comp[c].flushTimer = "fired"
    /\ AfterSelect(c, [comp[c] EXCEPT !.flushTimer = "stopped",
                                      !.batchTimeoutCount = 1,
                                      !.timerSet = FALSE],
                   TRUE, TRUE, ratio, ok)
    /\ UNCHANGED <<compPool, metricsQueue, queued>>
    /\ UNCHANGED nonCompVars

CompNext ==
    \/ QueueBuf
    \/ CompStart
    \/ CompShutdown
    \/ CompShutdownReturn
    \/ \E c \in Compressors, ratio \in GzRatios, ok \in BOOLEAN :
          CompRecv(c, ratio, ok)
    \/ \E c \in Compressors, ratio \in GzRatios, ok \in BOOLEAN :
          CompRecvClosed(c, ratio, ok)
    \/ \E c \in Compressors : CompTimerExpire(c)
    \/ \E c \in Compressors, ratio \in GzRatios, ok \in BOOLEAN :
          CompFlush(c, ratio, ok)

(***************************************************************************)
(* Properties of the compressor pool                                       *)
(***************************************************************************)
\* the buffers of the batch compressor c is accumulating
Batch(c) == IF comp[c].batchReadCount > 0 THEN comp[c].gzBuf ELSE <<>>

RECURSIVE SumOver(_, _)
SumOver(f, S) ==
    IF S = {} THEN 0
    ELSE LET x == CHOOSE y \in S : TRUE IN f[x] + SumOver(f, S \ {x})

\* the non-empty buffers among the first n queued
NonEmpty(n) == {i \in 1..n : BufLen(i) > 0}

\* Shutdown has returned on a pool that had been started
CompDrained ==
    /\ compPool.state = "Stopped"
    /\ ~compPool.waiting
    /\ \A c \in Compressors : comp[c].pc = "done"

C5_ShutdownDrains ==
    /\ [](/\ compPool.state = "Stopped" <=> metricsQueue.closed
          /\ \A c \in Compressors :
                comp[c].pc = "done" =>
                    /\ metricsQueue.closed
                    /\ metricsQueue.bufs = <<>>
                    /\ comp[c].batchReadCount = 0
                    /\ comp[c].batchReadByteCount = 0
                    /\ \A i \in BufIds :
                          Count(comp[c].gzBuf, i) > 0 => delivered[i] > 0
          /\ compPool.state = "Stopped" /\ ~compPool.waiting => CompWgDone)
    /\ [][compPool.state = "Stopped" =>
             /\ compPool'.state = "Stopped"
             /\ metricsQueue'.closed
             /\ \A c \in Compressors :
                   comp[c].pc = "none" => comp'[c].pc = "none"]_vars
    /\ compPool.waiting ~> (CompWgDone /\ ~compPool.waiting)

\* a compressor that has sent a partial batch, ended neither by size nor by
\* the timer, and exited; Shutdown has returned
C5_Witness ==
    /\ CompDrained
    /\ \E c \in Compressors :
          /\ compStats[c].sendCount = 1
          /\ compStats[c].timeoutFlushCount = 0
          /\ compStats[c].readByteCount > 0
          /\ compStats[c].readByteCount <
                 BatchReadByteLimit(INITIAL_COMPRESSION_FACTOR)

\* the flush timer of a compressor is armed exactly while it has a batch,
\* and only with a flush interval
FlushTimerFollowsBatch ==
    \A c \in Compressors :
        comp[c].pc \in {"select", "done"} =>
            /\ comp[c].flushTimer # "stopped" <=>
                  (compPool.flushInterval > 0 /\ comp[c].batchReadCount > 0)
            /\ comp[c].flushTimer # "stopped" => comp[c].timerSet

\* case <-flushTimer.C is taken by compressor c
FlushStep(c) ==
    /\ comp[c].pc = "select"
    /\ comp[c].flushTimer = "fired"
    /\ comp'[c].pc = "select"
    /\ comp'[c] # comp[c]
    /\ metricsQueue' = metricsQueue

\* the batch of c is sent, and counted as one send and one timeout flush
PartialBatchSent(c) ==
    /\ compStats'[c].timeoutFlushCount = compStats[c].timeoutFlushCount + 1
    /\ compStats'[c].sendCount = compStats[c].sendCount + 1
    /\ compStats'[c].readCount = compStats[c].readCount + comp[c].batchReadCount
    /\ \A i \in BufIds : delivered'[i] = delivered[i] + Count(Batch(c), i)
    /\ comp'[c].batchReadCount = 0
    /\ comp'[c].flushTimer = "stopped"

\* the timer of c is armed by the first buffer of a batch only
ArmedByFirstRead(c) ==
    (comp[c].flushTimer = "stopped" /\ comp'[c].flushTimer # "stopped") =>
        /\ comp[c].batchReadCount = 0
        /\ comp'[c].batchReadCount = 1
        /\ comp'[c].flushTimer = "running"
        /\ metricsQueue.bufs # <<>>
        /\ metricsQueue'.bufs = Tail(metricsQueue.bufs)

\* C28: with flush_interval > 0 the flush timer is armed exactly when a batch
\* absorbs its first buffer; a timer firing sends the partial batch and
\* counts one timeout flush; after every send the timer is stopped and
\* drained, so it never fires for an empty batch, one firing causes one send
\* at most, and no other send counts a timeout flush.
C28_TimeFlush ==
    /\ []FlushTimerFollowsBatch
    /\ [][\A c \in Compressors :
             /\ ArmedByFirstRead(c)
             /\ FlushStep(c) => PartialBatchSent(c)
             /\ compStats'[c].timeoutFlushCount # compStats[c].timeoutFlushCount
                   => FlushStep(c)
             /\ compStats'[c].sendCount <= compStats[c].sendCount + 1]_vars

\* a compressor has sent one batch, on the firing of its timer, and the timer
\* runs again for the batch it has started since
C28_Witness ==
    \E c \in Compressors :
        /\ compStats[c].timeoutFlushCount = 1
        /\ compStats[c].sendCount = 1
        /\ comp[c].batchReadCount > 0
        /\ comp[c].flushTimer = "running"

\* compressor c hands a batch to the sender
BatchSendStep(c) == compStats'[c].sendCount = compStats[c].sendCount + 1

\* the sender returned an error for the batch of c
SendErrorStep(c) ==
    compStats'[c].sendErrorCount # compStats[c].sendErrorCount

\* one send error, no sent bytes, and the batch is gone
BatchDiscarded(c) ==
    /\ BatchSendStep(c)
    /\ compStats'[c].sendErrorCount = compStats[c].sendErrorCount + 1
    /\ compStats'[c].sendByteCount = compStats[c].sendByteCount
    /\ comp'[c].batchReadCount = 0
    /\ comp'[c].batchReadByteCount = 0
    /\ Batch(c)' = <<>>

\* a step of the loop of compressor c leaves the other compressors as they
\* were
OtherCompressorsUntouched(c) ==
    (/\ comp[c].pc = "select"
     /\ comp'[c] # comp[c] \/ compStats'[c] # compStats[c]) =>
        \A d \in Compressors :
            d # c => comp'[d] = comp[d] /\ compStats'[d] = compStats[d]

\* no buffer is handed to the sender twice, and a batch holds exactly the
\* buffers read since the last send
NoReSend ==
    /\ \A i \in BufIds : delivered[i] <= 1
    /\ \A c \in Compressors :
          /\ Len(Batch(c)) = comp[c].batchReadCount
          /\ \A i \in SeqToSet(Batch(c)) : delivered[i] = 0

\* C29: when the sender returns an error for a batch the compressor counts
\* one send error and zero sent bytes for it, never re-sends the batch and
\* starts the next batch empty; a send without error counts no send error;
\* the other compressors are not affected.
C29_SendErrorIsolated ==
    /\ []NoReSend
    /\ [][\A c \in Compressors :
             /\ SendErrorStep(c) => BatchDiscarded(c)
             /\ OtherCompressorsUntouched(c)]_vars

\* a compressor read the first and the third buffer and sent them as two
\* batches: the sender failed for the first one, and the second one was
\* sent in full afterwards
C29_Witness ==
    \E c \in Compressors :
        /\ compStats[c].sendCount = 2
        /\ compStats[c].sendErrorCount = 1
        /\ compStats[c].readCount = 2
        /\ compStats[c].sendByteCount = BufLen(3)
        /\ delivered[1] = 1 /\ delivered[3] = 1 /\ delivered[4] = 0
        /\ \A d \in Compressors : d # c => compStats[d].sendCount = 0

\* compressor c ends a batch: gzWriter.Close() and sendFn(gzBuf.Bytes())
BatchEndStep(c) == compStats'[c].sendCount > compStats[c].sendCount

\* the batch compressor c ends has absorbed at least one buffer
BatchNotEmpty(c) == compStats'[c].readCount > compStats[c].readCount

\* gzWriter.Close() was called on the nil gzWriter
ClosedNilWriter(c) == comp[c].pc = "panic"

\* C39: a compressor never ends an empty batch: whatever the batch target
\* size (0 included), the buffers on the queue (empty ones included), the
\* outcome of the gzip write and the moment the queue is closed, the gzip
\* writer is closed and the sender is invoked only when the batch has
\* absorbed at least one buffer and a gzip writer exists.
C39_NoEmptyBatch ==
    /\ [](\A c \in Compressors : ~ClosedNilWriter(c))
    /\ [][\A c \in Compressors : BatchEndStep(c) => BatchNotEmpty(c)]_vars

(***************************************************************************)
(*                       RATE CONTROLLER (Credit)                          *)
(* The sources hold the controller twice: rate_controller.go and another   *)
(* version of the same file (part_017).  credit.src says which one runs.   *)
(***************************************************************************)
CREDIT_NO_LIMIT == 0
CREDIT_EXACT_MATCH == 0
\* part_017
CREDIT_UNLIMITED == 0 - 1

CreditSources == {"rate_controller.go", "part_017"}

Clients == 1..NumClients
Desireds == 1..MaxDesired
\* the minAcceptable argument: negative, CREDIT_EXACT_MATCH, within 1..desired
\* or above desired
MinAcceptables == {0 - 1, CREDIT_EXACT_MATCH, 1, MaxDesired + 1}

\* the arguments of the constructor: NewCredit(replenishValue, max, _), or
\* NewCreditFromSpec(spec) with spec parsed to replenishValue
CreditConfigs ==
    {[ctor |-> "NewCredit", replenishValue |-> 2, max |-> 1],
     [ctor |-> "NewCredit", replenishValue |-> 2, max |-> 3],
     [ctor |-> "NewCreditFromSpec", replenishValue |-> 2, max |-> 0]}

nonReaderVars == <<schedVars, poolVars, compVars, wallVars, bufVars, appVars>>

nonCreditVars == <<nonReaderVars, reader>>

\* NewCredit: max as stored (rate_controller.go)
NewCreditMax(replenishValue, max) ==
    IF max # CREDIT_NO_LIMIT /\ max < replenishValue THEN replenishValue
    ELSE max

\* NewCredit: maxValue as stored (part_017)
NewCreditMaxP17(replenishValue, maxValue) ==
    IF maxValue > 0 THEN Max(replenishValue, maxValue) ELSE maxValue

\* NewCredit, startReplenish included: the bucket starts with replenishValue
\* and the replenish goroutine at its select
NewCredit(src, ctor, replenishValue, max) ==
    [src |-> src, ctor |-> ctor,
     current |-> replenishValue,
     max |-> IF src = "part_017" THEN NewCreditMaxP17(replenishValue, max)
             ELSE NewCreditMax(replenishValue, max),
     replenishValue |-> replenishValue,
     ctxDone |-> FALSE,
     pc |-> "select"]

\* NewCreditFromSpec: NewCredit(replenishValue, 0, replenishInt)
NewCreditFromSpec(src, replenishValue) ==
    NewCredit(src, "NewCreditFromSpec", replenishValue, 0)

IdleClient(target) ==
    [pc |-> "idle", desired |-> 0, asked |-> 0, minAcceptable |-> 0,
     got |-> 0, received |-> 0, target |-> target]

CreditInitVars(src, cfg, targets) ==
    /\ credit = IF cfg.ctor = "NewCreditFromSpec"
                THEN NewCreditFromSpec(src, cfg.replenishValue)
                ELSE NewCredit(src, cfg.ctor, cfg.replenishValue, cfg.max)
    /\ client = [c \in Clients |-> IdleClient(targets[c])]
    /\ creditStats = [ticks |-> 0, granted |-> 0, calls |-> 0]
    /\ creditSd = [stop |-> "", waiting |-> FALSE]

(***************************************************************************)
(* Credit.startReplenish: the goroutine                                    *)
(***************************************************************************)
Replenished_fill(cr) ==
    IF cr.max # CREDIT_NO_LIMIT THEN cr.max
    ELSE cr.current + cr.replenishValue

\* c.current after a replenish (rate_controller.go)
Replenished(cr) ==
    LET n == cr.current + cr.replenishValue
    IN  IF cr.max # CREDIT_NO_LIMIT /\ n > cr.max THEN cr.max ELSE n

\* c.current after a replenish (part_017)
ReplenishedP17(cr) ==
    LET n == cr.current + cr.replenishValue
    IN  IF cr.max > 0 /\ n > cr.max THEN cr.max ELSE n

\* the select of the goroutine, other than case <-ticker.C.
\* rate_controller.go: case <-ctx.Done() returns, default goes to sleep;
\* part_017: case <-c.ctx.Done() sets current to CREDIT_UNLIMITED, wakes the
\* waiters and returns
ReplenishSelect ==
    /\ credit.pc = "select"
    /\ IF credit.src = "part_017"
       THEN /\ credit.ctxDone
            /\ credit' = [credit EXCEPT !.current = CREDIT_UNLIMITED,
                                        !.pc = "done"]
       ELSE credit' = [credit EXCEPT
                !.pc = IF credit.ctxDone THEN "done" ELSE "sleep"]
    /\ UNCHANGED <<client, creditStats, creditSd>>
    /\ UNCHANGED nonCreditVars

\* the replenish interval is over: add replenishValue, cap, Broadcast.
\* counted: the tick is counted in creditStats, up to MaxCreditTicks
Replenish(counted) ==
    /\ credit.pc = IF credit.src = "part_017" THEN "select" ELSE "sleep"
    /\ counted => creditStats.ticks < MaxCreditTicks
    /\ credit' = [credit EXCEPT
           !.current = IF credit.src = "part_017" THEN ReplenishedP17(credit)
                       ELSE Replenished(credit),
           !.pc = "select"]
    /\ creditStats' = IF counted THEN [creditStats EXCEPT !.ticks = @ + 1]
                      ELSE creditStats
    /\ UNCHANGED <<client, creditSd>>
    /\ UNCHANGED nonCreditVars

(***************************************************************************)
(* Credit.StopReplenish, Credit.StopReplenishWait                          *)
(***************************************************************************)
StopReplenish ==
    /\ creditSd.stop = ""
    /\ credit' = [credit EXCEPT !.ctxDone = TRUE]
    /\ creditSd' = [creditSd EXCEPT !.stop = "StopReplenish"]
    /\ UNCHANGED <<client, creditStats>>
    /\ UNCHANGED nonCreditVars

\* StopReplenishWait up to c.wg.Wait()
StopReplenishWait ==
    /\ creditSd.stop = ""
    /\ credit' = [credit EXCEPT !.ctxDone = TRUE]
    /\ creditSd' = [stop |-> "StopReplenishWait", waiting |-> TRUE]
    /\ UNCHANGED <<client, creditStats>>
    /\ UNCHANGED nonCreditVars

\* c.wg.Wait() returns
StopReplenishWaitReturn ==
    /\ creditSd.waiting
    /\ credit.pc = "done"
    /\ creditSd' = [creditSd EXCEPT !.waiting = FALSE]
    /\ UNCHANGED <<credit, client, creditStats>>
    /\ UNCHANGED nonCreditVars

\* the stop call has returned
StopReturned == creditSd.stop # "" /\ ~creditSd.waiting

(***************************************************************************)
(* Credit.GetCredit                                                        *)
(***************************************************************************)
\* minAcceptable after the first statement of GetCredit (rate_controller.go)
MinAcceptable(desired, minAcceptable) ==
    IF minAcceptable = CREDIT_EXACT_MATCH \/ minAcceptable > desired
    THEN desired ELSE minAcceptable

\* minAcceptable after the first statement of GetCredit (part_017)
MinAcceptableP17(desired, minAcceptable) ==
    IF minAcceptable < 0 \/ minAcceptable > desired
    THEN desired ELSE minAcceptable

Waits_strict(cr, minAcceptable) == cr.current <= minAcceptable

\* the condition of the loop around c.cond.Wait() (rate_controller.go)
Waits(cr, minAcceptable) == cr.current < minAcceptable

\* the condition of the loop around c.cond.Wait() (part_017)
WaitsP17(cr, minAcceptable) == cr.current >= 0 /\ cr.current < minAcceptable

Got_desired(cr, desired) == desired

\* got (rate_controller.go)
Got(cr, desired) == IF cr.current >= desired THEN desired ELSE cr.current

\* got (part_017)
GotP17(cr, desired) ==
    IF cr.current < 0 THEN desired ELSE Min(desired, cr.current)

\* GetCredit(desired, minAcceptable) is called by c: up to c.cond.L.Lock()
Call(c, desired, minAcceptable) ==
    /\ client[c].pc = "idle"
    /\ client' = [client EXCEPT ![c] =
           [@ EXCEPT !.pc = "wait", !.desired = desired,
                     !.asked = minAcceptable,
                     !.minAcceptable =
                         IF credit.src = "part_017"
                         THEN MinAcceptableP17(desired, minAcceptable)
                         ELSE MinAcceptable(desired, minAcceptable),
                     !.got = 0]]
    /\ UNCHANGED <<credit, creditSd>>

\* a GetCredit call of any requestor, the calls being counted
GetCreditCall(c, desired, minAcceptable) ==
    /\ creditStats.calls < MaxCreditCalls
    /\ Call(c, desired, minAcceptable)
    /\ creditStats' = [creditStats EXCEPT !.calls = @ + 1]
    /\ UNCHANGED nonCreditVars

\* GetCredit gets past the wait loop, takes the credit and returns
Return(c) ==
    /\ client[c].pc = "wait"
    /\ IF credit.src = "part_017"
       THEN ~WaitsP17(credit, client[c].minAcceptable)
       ELSE ~Waits(credit, client[c].minAcceptable)
    /\ LET got == IF credit.src = "part_017"
                  THEN GotP17(credit, client[c].desired)
                  ELSE Got(credit, client[c].desired)
       IN  /\ credit' = IF credit.src = "part_017" /\ credit.current < 0
                        THEN credit
                        ELSE [credit EXCEPT !.current = @ - got]
           /\ client' = [client EXCEPT ![c] =
                  [@ EXCEPT !.pc = "idle", !.got = got,
                            !.received = IF client[c].target > 0
                                         THEN @ + got ELSE @]]
           /\ creditStats' = [creditStats EXCEPT !.granted = @ + got]
    /\ UNCHANGED creditSd

\* the return of a GetCredit call of a requestor
GetCreditReturn(c) == Return(c) /\ UNCHANGED nonCreditVars

\* the requestors of testCredit: the credit each is to receive
targetCredit == [c \in Clients |-> c + 1]

\* startTestCreditUser: while the target is not reached, ask for what is
\* still needed at most, with any minimum up to it
CreditUserCall(c, desired, minAcceptable) ==
    /\ client[c].received < client[c].target
    /\ desired <= client[c].target - client[c].received
    /\ credit.max # CREDIT_NO_LIMIT => desired <= credit.max
    /\ minAcceptable >= 0 /\ minAcceptable <= desired
    /\ Call(c, desired, minAcceptable)
    /\ UNCHANGED creditStats
    /\ UNCHANGED nonCreditVars

CreditUserNext ==
    \/ \E c \in Clients, d \in Desireds, m \in 0..MaxDesired :
          CreditUserCall(c, d, m)
    \/ \E c \in Clients : GetCreditReturn(c)
    \/ ReplenishSelect
    \/ Replenish(FALSE)

CreditNext ==
    \/ \E c \in Clients, d \in Desireds, m \in MinAcceptables :
          GetCreditCall(c, d, m)
    \/ \E c \in Clients : GetCreditReturn(c)
    \/ ReplenishSelect
    \/ Replenish(TRUE)
    \/ StopReplenish
    \/ StopReplenishWait
    \/ StopReplenishWaitReturn

(***************************************************************************)
(* CreditReader                                                            *)
(***************************************************************************)
\* the reader asks the controller for credit as this requestor
ReaderClient == 1

\* the bytes wrapped, and the minAcceptable argument of NewCreditReader
ReaderBufs == {<<>>, [i \in 1..MaxReaderLen |-> 10 + i]}
ReaderMins == {0 - 1, 1}

Whences == {"SeekStart", "SeekCurrent", "SeekEnd", "other"}

\* no Read has returned
NoRead ==
    [n |-> 0, err |-> "none", closed |-> FALSE, avail |-> 0, plen |-> 0,
     got |-> 0]

\* NewCreditReader(cc, minAcceptable, b).  Besides the fields of the struct:
\* the Read under way, what the last Read returned and found, where the
\* reads started (from), what they delivered since (out), and what the pass
\* before the last Rewind delivered (prev)
NewCreditReader(minAcceptable, b) ==
    [minC |-> IF minAcceptable < 0 THEN 0 ELSE minAcceptable,
     b |-> b, r |-> 0, n |-> Len(b), closed |-> FALSE,
     pc |-> "idle", plen |-> 0, last |-> NoRead,
     from |-> 0, out |-> <<>>,
     rewinds |-> 0, prev |-> [full |-> FALSE, out |-> <<>>]]

ReaderInitVars(minAcceptable, b) == reader = NewCreditReader(minAcceptable, b)

ToRead_len(plen, available) == plen

\* toRead before GetCredit: len(p), or what is left if that is less
ToRead(plen, available) == IF available < plen THEN available ELSE plen

\* what Read(p) returns, with what it found
ReadResult(rd, plen, n, err, got) ==
    [n |-> n, err |-> err, closed |-> rd.closed, avail |-> rd.n - rd.r,
     plen |-> plen, got |-> got]

\* Read(p), len(p) = plen: up to its return, or up to cr.cc.GetCredit
CreditReaderRead(plen) ==
    /\ reader.pc = "idle"
    /\ LET available == reader.n - reader.r
       IN  IF reader.closed
           THEN /\ reader' = [reader EXCEPT
                       !.last = ReadResult(reader, plen, 0, "nil", 0)]
                /\ UNCHANGED <<credit, client, creditStats, creditSd>>
           ELSE IF available <= 0
           THEN /\ reader' = [reader EXCEPT
                       !.last = ReadResult(reader, plen, 0, "EOF", 0)]
                /\ UNCHANGED <<credit, client, creditStats, creditSd>>
           ELSE IF plen = 0
           THEN /\ reader' = [reader EXCEPT
                       !.last = ReadResult(reader, plen, 0, "nil", 0)]
                /\ UNCHANGED <<credit, client, creditStats, creditSd>>
           ELSE /\ reader' = [reader EXCEPT !.pc = "credit", !.plen = plen,
                                            !.last = NoRead]
                /\ Call(ReaderClient, ToRead(plen, available), reader.minC)
                /\ UNCHANGED creditStats
    /\ UNCHANGED nonReaderVars

\* cr.cc.GetCredit returns toRead; Read copies cr.b[s:cr.r] and returns.
\* The slice expression panics if cr.r is beyond the buffer
CreditReaderReadReturn ==
    /\ reader.pc = "credit"
    /\ Return(ReaderClient)
    /\ LET toRead == client'[ReaderClient].got
           s      == reader.r
       IN  reader' =
             IF toRead = 0
             THEN [reader EXCEPT !.pc = "idle", !.plen = 0,
                      !.last = ReadResult(reader, reader.plen, 0, "nil", 0)]
             ELSE IF s + toRead > reader.n
             THEN [reader EXCEPT !.pc = "panic", !.r = s + toRead]
             ELSE [reader EXCEPT !.pc = "idle", !.plen = 0,
                      !.r = s + toRead,
                      !.out = @ \o SubSeq(reader.b, s + 1, s + toRead),
                      !.last = ReadResult(reader, reader.plen, toRead, "nil",
                                          toRead)]
    /\ UNCHANGED nonReaderVars

\* Seek(offset, whence); an error leaves the reader as it is
CreditReaderSeek(offset, whence) ==
    /\ reader.pc = "idle"
    /\ LET newR == IF whence = "SeekCurrent" THEN reader.r + offset
                   ELSE IF whence = "SeekStart" THEN offset
                   ELSE reader.n - 1 + offset
       IN  reader' =
             IF whence = "other" \/ newR < 0 \/ newR >= reader.n
                \/ reader.closed
             THEN reader
             ELSE [reader EXCEPT !.r = newR, !.from = newR, !.out = <<>>]
    /\ UNCHANGED <<credit, client, creditStats, creditSd>>
    /\ UNCHANGED nonReaderVars

\* cr.closed = true
Closed(rd) == [rd EXCEPT !.closed = TRUE]

CreditReaderClose ==
    /\ reader.pc = "idle"
    /\ reader' = Closed(reader)
    /\ UNCHANGED <<credit, client, creditStats, creditSd>>
    /\ UNCHANGED nonReaderVars

\* Rewind(): cr.r, cr.closed = 0, false
CreditReaderRewind ==
    /\ reader.pc = "idle"
    /\ reader.rewinds < MaxRewinds
    /\ reader' = [reader EXCEPT
           !.r = 0, !.closed = FALSE,
           !.from = 0, !.out = <<>>, !.last = NoRead,
           !.rewinds = @ + 1,
           !.prev = [full |-> reader.from = 0 /\ reader.r = reader.n,
                     out |-> reader.out]]
    /\ UNCHANGED <<credit, client, creditStats, creditSd>>
    /\ UNCHANGED nonReaderVars

ReaderNext ==
    \/ \E plen \in 0..(MaxReaderLen + 1) : CreditReaderRead(plen)
    \/ CreditReaderReadReturn
    \/ \E offset \in (0 - 1)..MaxReaderLen, whence \in Whences :
          CreditReaderSeek(offset, whence)
    \/ CreditReaderClose
    \/ CreditReaderRewind
    \/ ReplenishSelect
    \/ Replenish(TRUE)

(***************************************************************************)
(* Properties of the rate controller                                       *)
(***************************************************************************)
\* neither StopReplenish nor StopReplenishWait has been called
CreditRunning == ~credit.ctxDone

\* the step is the return of the GetCredit call of c
GrantStep(c) == client[c].pc = "wait" /\ client'[c].pc = "idle"

\* the return of GetCredit(desired, min) with 0 < min <= desired: the bucket
\* holds min at least, the grant is min(desired, current) and it is taken
\* from the bucket
GrantInRange(c) ==
    LET desired == client[c].desired
        min     == client[c].asked
        g       == client'[c].got
    IN  (GrantStep(c) /\ CreditRunning /\ 0 < min /\ min <= desired) =>
            /\ credit.current >= min
            /\ g = Min(desired, credit.current)
            /\ min <= g /\ g <= desired
            /\ credit'.current = credit.current - g

\* C14: on a running controller GetCredit(desired, min), 0 < min <= desired,
\* returns only when current >= min, returns g = min(desired, current), so
\* min <= g <= desired, and takes exactly g from current; current is never
\* negative
C14_GrantRange ==
    /\ [](CreditRunning => credit.current >= 0)
    /\ [][\A c \in Clients : GrantInRange(c)]_vars

\* a call for 2 with 1 acceptable got 1, all there was, after a replenish
C14_Witness ==
    /\ CreditRunning
    /\ creditStats.ticks > 0
    /\ credit.current = 0
    /\ \E c \in Clients :
          /\ client[c].pc = "idle"
          /\ client[c].desired = 2
          /\ client[c].asked = 1
          /\ client[c].got = 1

\* the return of a GetCredit(desired, min) call whose min satisfies exact:
\* the bucket holds desired at least and the grant is desired
ExactGrant(c, exact(_, _)) ==
    (GrantStep(c) /\ CreditRunning /\ exact(client[c].asked, client[c].desired))
        => /\ credit.current >= client[c].desired
           /\ client'[c].got = client[c].desired

NotPositiveOrAbove(min, desired) == min <= 0 \/ min > desired

Above(min, desired) == min > desired

\* C15: on a running controller GetCredit(desired, min) with min <= 0 or
\* min > desired returns only when current >= desired, and returns desired
C15_Normalisation ==
    [][\A c \in Clients : ExactGrant(c, NotPositiveOrAbove)]_vars

\* the part both versions of GetCredit agree on: min > desired
C15_AboveDesired ==
    [][\A c \in Clients : ExactGrant(c, Above)]_vars

\* the GetCredit call of c is in c.cond.Wait()
Blocked(c) ==
    /\ client[c].pc = "wait"
    /\ IF credit.src = "part_017"
       THEN WaitsP17(credit, client[c].minAcceptable)
       ELSE Waits(credit, client[c].minAcceptable)

\* the replenish goroutine is gone: nothing is left to wake a waiter
NoWaiterLeftBehind == \A c \in Clients : ~(credit.pc = "done" /\ Blocked(c))

\* a GetCredit returning after the stop call returned gives desired
DesiredAfterStop(c) ==
    (GrantStep(c) /\ StopReturned) => client'[c].got = client[c].desired

\* C16: once StopReplenish or StopReplenishWait has been called, every
\* GetCredit(desired, _), waiting already or called later, returns desired,
\* and none is left waiting for ever
C16_AfterStop ==
    /\ []NoWaiterLeftBehind
    /\ [][\A c \in Clients : DesiredAfterStop(c)]_vars

\* C17: the bucket of every controller, built by NewCredit or by
\* NewCreditFromSpec, is capped: current <= max, where max >= replenish_value
C17_CreditCap ==
    credit.current <= Max(credit.max, credit.replenishValue)

\* what the code does: a positive max is raised to replenishValue and caps
\* the bucket; NewCreditFromSpec asks for CREDIT_NO_LIMIT, and then all the
\* credit that is not granted stays in the bucket
C17_CapWhenLimited ==
    /\ credit.max > 0 =>
          credit.max >= credit.replenishValue /\ credit.current <= credit.max
    /\ credit.ctor = "NewCreditFromSpec" => credit.max = CREDIT_NO_LIMIT
    /\ (credit.max = CREDIT_NO_LIMIT /\ credit.current >= 0) =>
          credit.current + creditStats.granted =
              credit.replenishValue * (1 + creditStats.ticks)

\* the credit supplied so far: the initial fill and one replenishValue a tick
Supplied == credit.replenishValue * (1 + creditStats.ticks)

\* C18: while the controller is running, the credit granted to all the
\* requestors together, plus what is in the bucket, is at most
\* replenish_value * (1 + number of replenish ticks)
C18_BandwidthLimit ==
    CreditRunning =>
        /\ creditStats.granted <= Supplied
        /\ creditStats.granted + credit.current <= Supplied

\* after a tick, everything supplied has been granted, to both requestors
C18_Witness ==
    /\ CreditRunning
    /\ creditStats.ticks > 0
    /\ creditStats.granted = Supplied
    /\ \A c \in Clients : client[c].pc = "idle" /\ client[c].got > 0

TargetReached(c) == client[c].received >= client[c].target

\* C19: with replenish ticks that keep coming and requestors that loop on
\* GetCredit (any desired, any min_acceptable <= desired <= max) until their
\* target is reached, every requestor reaches its target, and no GetCredit
\* call waits for ever
C19_NoStarvation ==
    /\ \A c \in Clients : <>TargetReached(c)
    /\ \A c \in Clients : (client[c].pc = "wait") ~> (client[c].pc = "idle")

\* both requestors have their target, the last grant having emptied the bucket
C19_Witness ==
    /\ \A c \in Clients :
          /\ client[c].pc = "idle"
          /\ client[c].target > 0
          /\ client[c].received = client[c].target
    /\ credit.current = 0

\* what the last Read returned, against what it found
ReadContract ==
    LET l == reader.last
    IN  l.err # "none" =>
          /\ l.closed => l.n = 0 /\ l.err = "nil"
          /\ (~l.closed /\ l.avail = 0) => l.n = 0 /\ l.err = "EOF"
          /\ (~l.closed /\ l.avail > 0) =>
                /\ l.err = "nil"
                /\ l.n = l.got
                /\ l.n <= Min(l.plen, l.avail)

\* the reads since the start, the last Seek or the last Rewind delivered the
\* bytes from there up to the read offset, in order
InOrder == reader.out = SubSeq(reader.b, reader.from + 1, reader.r)

\* a pass from offset 0 to the end delivers the wrapped bytes, and after a
\* Rewind the same bytes as the full pass before it
FullPass ==
    (reader.from = 0 /\ reader.r = reader.n) =>
        /\ reader.out = reader.b
        /\ (reader.rewinds > 0 /\ reader.prev.full) =>
               reader.out = reader.prev.out

\* the step is a Rewind
RewindStep == reader'.rewinds = reader.rewinds + 1

\* C20: Reads deliver the wrapped bytes in order, each returning the credit
\* granted, at most min(len(p), bytes left), and io.EOF when nothing is
\* left; Close is idempotent and a Read of a closed reader returns (0, nil);
\* Rewind reopens the reader at offset 0, and a full pass after it delivers
\* the bytes of the first pass; the read offset stays within 0..len(b)
C20_CreditReader ==
    /\ [](/\ reader.r >= 0 /\ reader.r <= reader.n
          /\ reader.n = Len(reader.b)
          /\ ReadContract
          /\ InOrder
          /\ FullPass
          /\ Closed(Closed(reader)) = Closed(reader))
    /\ [][RewindStep => reader'.r = 0 /\ ~reader'.closed]_vars

\* the bytes were read to the end, the reader was rewound, and the second
\* pass, fed by a replenish, has come to the end and to io.EOF
C20_Witness ==
    /\ reader.n = MaxReaderLen
    /\ reader.rewinds = 1
    /\ reader.prev.full
    /\ reader.last.err = "EOF"
    /\ reader.out = reader.prev.out
    /\ creditStats.ticks > 0

(***************************************************************************)
(*                     BUFFER POOL (ReadFileBufPool)                       *)
(***************************************************************************)
READ_FILE_BUF_POOL_MAX_SIZE_UNBOUND == 0

Owners == 1..NumOwners

BufferIds == 1..MaxBuffers

\* max_pool_size: unbound, or a cap
MaxPoolSizes == READ_FILE_BUF_POOL_MAX_SIZE_UNBOUND..MaxPoolSize

nonBufVars == <<schedVars, poolVars, compVars, creditVars, wallVars, appVars>>

\* NewBufPool(maxPoolSize); no bytes.Buffer exists yet
BufPoolInitVars(maxPoolSize) ==
    /\ bufPool = [pool |-> <<>>, maxPoolSize |-> maxPoolSize, poolSize |-> 0]
    /\ buffers = [b \in BufferIds |->
                     [made |-> FALSE, len |-> 0, heldBy |-> {}]]

\* the buffers idle in the pool, the most recently returned last: pool[:poolSize]
IdleBufs == SubSeq(bufPool.pool, 1, bufPool.poolSize)

\* GetBuf on a pool with idle buffers: buf := p.pool[p.poolSize] after
\* p.poolSize--, and buf.Reset()
GetBufPooled(o) ==
    /\ bufPool.poolSize > 0
    /\ LET b == bufPool.pool[bufPool.poolSize]
       IN  /\ bufPool' = [bufPool EXCEPT !.poolSize = @ - 1]
           /\ buffers' = [buffers EXCEPT ![b].len = 0,
                                         ![b].heldBy = @ \cup {o}]

\* GetBuf on an empty pool: return &bytes.Buffer{}
GetBufNew(o) ==
    /\ bufPool.poolSize = 0
    /\ \E b \in BufferIds :
          /\ ~buffers[b].made
          /\ \A a \in BufferIds : a < b => buffers[a].made
          /\ buffers' = [buffers EXCEPT ![b] =
                            [made |-> TRUE, len |-> 0, heldBy |-> {o}]]
    /\ UNCHANGED bufPool

\* ReadFileBufPool.GetBuf, called by o
GetBuf(o) ==
    /\ GetBufPooled(o) \/ GetBufNew(o)
    /\ UNCHANGED nonBufVars

\* the owner of b writes to it
WriteBuf(o, b) ==
    /\ o \in buffers[b].heldBy
    /\ buffers[b].len = 0
    /\ buffers' = [buffers EXCEPT ![b].len = 1]
    /\ UNCHANGED bufPool
    /\ UNCHANGED nonBufVars

\* a pool that keeps every buffer returned
AtMaxCapacity_never(p) == FALSE

\* Discard if at max capacity
AtMaxCapacity(p) == p.maxPoolSize > 0 /\ p.poolSize >= p.maxPoolSize

\* the pool after b was stored at p.pool[p.poolSize]
Pooled(p, b) ==
    [p EXCEPT !.pool = IF p.poolSize >= Len(p.pool)
                       THEN Append(p.pool, b)
                       ELSE [p.pool EXCEPT ![p.poolSize + 1] = b],
              !.poolSize = @ + 1]

\* ReadFileBufPool.ReturnBuf(b), called by the owner of b, b # nil
ReturnBuf(o, b) ==
    /\ o \in buffers[b].heldBy
    /\ buffers' = [buffers EXCEPT ![b].heldBy = @ \ {o}]
    /\ bufPool' = IF AtMaxCapacity(bufPool) THEN bufPool
                  ELSE Pooled(bufPool, b)
    /\ UNCHANGED nonBufVars

BufPoolNext ==
    \/ \E o \in Owners : GetBuf(o)
    \/ \E o \in Owners, b \in BufferIds : WriteBuf(o, b)
    \/ \E o \in Owners, b \in BufferIds : ReturnBuf(o, b)

(***************************************************************************)
(* Properties of the buffer pool                                           *)
(***************************************************************************)
\* b is idle in the pool
IsIdle(b) == \E i \in 1..Len(IdleBufs) : IdleBufs[i] = b

BufOwnership ==
    /\ bufPool.maxPoolSize > 0 => Len(IdleBufs) <= bufPool.maxPoolSize
    /\ bufPool.poolSize <= Len(bufPool.pool)
    /\ \A b \in BufferIds :
          /\ Cardinality(buffers[b].heldBy) <= 1
          /\ ~(IsIdle(b) /\ buffers[b].heldBy # {})
          /\ Count(IdleBufs, b) <= 1
          /\ (IsIdle(b) \/ buffers[b].heldBy # {}) => buffers[b].made

\* GetBuf gave b to o
GetBufStep(o, b) == o \notin buffers[b].heldBy /\ o \in buffers'[b].heldBy

\* o gave b to ReturnBuf
ReturnBufStep(o, b) == o \in buffers[b].heldBy /\ o \notin buffers'[b].heldBy

\* the buffer GetBuf returns is empty; it is the idle buffer returned last,
\* taken out of the pool, or a new one when no buffer is idle
GetBufContract(b) ==
    /\ buffers'[b].len = 0
    /\ IF Len(IdleBufs) > 0
       THEN /\ b = IdleBufs[Len(IdleBufs)]
            /\ IdleBufs' = SubSeq(IdleBufs, 1, Len(IdleBufs) - 1)
       ELSE /\ ~buffers[b].made
            /\ IdleBufs' = IdleBufs

\* ReturnBuf puts b on the pool, or drops it when the pool is at its cap
ReturnBufContract(b) ==
    IF bufPool.maxPoolSize > 0 /\ Len(IdleBufs) >= bufPool.maxPoolSize
    THEN bufPool' = bufPool
    ELSE IdleBufs' = Append(IdleBufs, b)

\* C30: under any interleaving of GetBuf and ReturnBuf, each owner returning
\* a buffer at most once, the idle buffers never exceed max_pool_size when it
\* is > 0 (a ReturnBuf at the cap drops the buffer and leaves the pool
\* unchanged), GetBuf returns an empty buffer and removes it from the pool,
\* most recently returned first, and no buffer is idle and held, or held by
\* two owners.
C30_BufPoolOwnership ==
    /\ []BufOwnership
    /\ [][\A o \in Owners, b \in BufferIds :
             /\ GetBufStep(o, b) => GetBufContract(b)
             /\ ReturnBufStep(o, b) => ReturnBufContract(b)]_vars

\* a pool with a cap dropped a buffer that was returned with content when it
\* was full, and an owner holds, empty, a buffer it got out of the pool: the
\* slot behind the idle ones still refers to it
C30_Witness ==
    /\ bufPool.maxPoolSize > 0
    /\ \E b \in BufferIds :
          /\ buffers[b].made /\ ~IsIdle(b) /\ buffers[b].heldBy = {}
          /\ buffers[b].len > 0
    /\ \E b \in BufferIds, o \in Owners :
          /\ buffers[b].heldBy = {o}
          /\ buffers[b].len = 0
          /\ Len(bufPool.pool) > bufPool.poolSize
          /\ bufPool.pool[bufPool.poolSize + 1] = b

(***************************************************************************)
(*                        METRICS GENERATORS                               *)
(***************************************************************************)
\* generator config: full_metrics_factor
FullMetricsFactors == 0..MaxFMF

\* the values initialCycleNum.cycleNum may have when a generator is created;
\* MaxCycleInt stands for the largest int
InitialCycleNums == 0..MaxCycleInt

nonGenVars ==
    <<schedVars, poolVars, compVars, creditVars, wallVars, bufVars, runVars>>

\* what GetInitialCycleNum(fullMetricsFactor) returns when the global counter
\* is counter
GetInitialCycleNum(counter, fullMetricsFactor) ==
    IF fullMetricsFactor <= 1 THEN 0 ELSE counter % fullMetricsFactor

\* the global counter after GetInitialCycleNum(fullMetricsFactor); the
\* increment of the largest int is negative and the counter goes back to 0
InitialCycleNumAfter(counter, fullMetricsFactor) ==
    IF fullMetricsFactor <= 1 THEN counter
    ELSE IF counter + 1 > MaxCycleInt THEN 0 ELSE counter + 1

\* a generator that never leaves its cycle#
NextCycleNum_stay(cycleNum, fullMetricsFactor) == cycleNum

\* if m.CycleNum += 1; m.CycleNum >= m.FullMetricsFactor { m.CycleNum = 0 }
NextCycleNum(cycleNum, fullMetricsFactor) ==
    IF cycleNum + 1 >= fullMetricsFactor THEN 0 ELSE cycleNum + 1

(***************************************************************************)
(* RandomGaugeParser                                                       *)
(***************************************************************************)
\* the values valUpdater may draw
ValInts == {7, 8, 70}

\* fmt.Fprintf(parser.buf, "%d", parser.ValInt), for ValInt >= 0: the bytes
\* of the decimal digits
RECURSIVE ValBytes(_)
ValBytes(n) ==
    IF n < 10 THEN <<48 + n>> ELSE Append(ValBytes(n \div 10), 48 + (n % 10))

(***************************************************************************)
(* GaugeMetrics                                                            *)
(***************************************************************************)
NoRun == [emitted |-> FALSE, val |-> <<>>]

\* no generator was built
NoGaugeMetrics ==
    [made |-> FALSE, fmf |-> 0, cycleNum |-> 0, currentIndex |-> -1,
     valCache |-> [i \in 0..1 |-> <<>>], runs |-> 0, hist |-> <<>>,
     last |-> NoRun]

\* no generator was built
NoCounterMetrics ==
    [made |-> FALSE, fmf |-> 0, cycleNum |-> 0, currentIndex |-> -1,
     valCache |-> [i \in 0..1 |-> 0], zeroDelta |-> FALSE,
     init |-> 0, parserVal |-> 0, runs |-> 0,
     last |-> [hasPrev |-> FALSE, emitted |-> FALSE, delta |-> 0,
               val |-> 0, prevVal |-> 0]]

\* m.val and m.categoricalMetric before the first change
NoCategory == ""

\* the categories the parser chooses from
Choices == {"R", "S", "T"}

\* no generator was built
NoCategoricalMetrics ==
    [made |-> FALSE, fmf |-> 0, cycleNum |-> 0, val |-> NoCategory,
     categoricalMetric |-> NoCategory, runs |-> 0, lines |-> <<>>,
     latest |-> [c \in Choices |-> -1], prevVal |-> NoCategory]

\* the generators when n generators with a factor above 1 were built before
GenInitVarsFrom(n) ==
    /\ initialCycleNum = n
    /\ gauge = NoGaugeMetrics
    /\ counterMetrics = NoCounterMetrics
    /\ categoricalMetrics = NoCategoricalMetrics

GenInitVars == GenInitVarsFrom(0)


\* NewGaugeMetrics(cfg) with cfg.FullMetricsFactor = fmf
NewGaugeMetrics(fmf) ==
    /\ ~gauge.made
    /\ gauge' = [NoGaugeMetrics EXCEPT
                    !.made = TRUE, !.fmf = fmf,
                    !.cycleNum = GetInitialCycleNum(initialCycleNum, fmf)]
    /\ initialCycleNum' = InitialCycleNumAfter(initialCycleNum, fmf)
    /\ UNCHANGED <<counterMetrics, categoricalMetrics>>
    /\ UNCHANGED nonGenVars

\* a cache slot that always takes the length of the value
CacheSlot_exact(slot, currVal) == currVal

\* if len(m.valCache[currIndex]) < len(currVal) { make([]byte, len(currVal)) }
\* and copy(m.valCache[currIndex], currVal): a slot longer than the value
\* keeps its length and its bytes past the value
CacheSlot(slot, currVal) ==
    LET dst == IF Len(slot) < Len(currVal)
               THEN [i \in 1..Len(currVal) |-> 0] ELSE slot
    IN  [i \in 1..Len(dst) |-> IF i <= Len(currVal) THEN currVal[i] ELSE dst[i]]

\* GaugeMetrics.TaskActivity, the parser having produced ValInt = v
GaugeTaskActivity(v) ==
    /\ gauge.made
    /\ gauge.runs < MaxRuns
    /\ LET hasPrev   == gauge.currentIndex >= 0
           currIndex == IF hasPrev THEN gauge.currentIndex ELSE 0
           currVal   == ValBytes(v)
           valCache  == [gauge.valCache EXCEPT
                            ![currIndex] = CacheSlot(@, currVal)]
           prevVal   == valCache[1 - currIndex]
           emitted   == ~hasPrev \/ gauge.cycleNum = 0 \/ currVal # prevVal
       IN  gauge' = [gauge EXCEPT
                        !.valCache = valCache,
                        !.currentIndex = 1 - currIndex,
                        !.cycleNum = NextCycleNum(@, gauge.fmf),
                        !.runs = @ + 1,
                        !.hist = Append(@, gauge.cycleNum),
                        !.last = [emitted |-> emitted, val |-> currVal]]
    /\ UNCHANGED <<initialCycleNum, counterMetrics, categoricalMetrics>>
    /\ UNCHANGED nonGenVars

GaugeNext ==
    \/ \E fmf \in FullMetricsFactors : NewGaugeMetrics(fmf)
    \/ \E v \in ValInts : GaugeTaskActivity(v)

(***************************************************************************)
(* CounterMetrics                                                          *)
(***************************************************************************)
\* the counter is a uint32; the model keeps CounterBits bits of it
CounterModulus == 2 ^ CounterBits

\* parser config: init, and the increments valUpdater may add; 0 stands for
\* a repeat of the value
CounterInits == {0, CounterModulus - 1}

CounterIncs == {0, 1, 3}

\* a subtraction that stops at 0
Uint32Sub_floor(a, b) == IF a >= b THEN a - b ELSE 0

\* a - b on uint32
Uint32Sub(a, b) == (a - b) % CounterModulus

\* NewCounterMetrics(cfg) with cfg.FullMetricsFactor = fmf and
\* cfg.ParserConfig.Init = init
NewCounterMetrics(fmf, init) ==
    /\ ~counterMetrics.made
    /\ counterMetrics' = [NoCounterMetrics EXCEPT
                             !.made = TRUE, !.fmf = fmf,
                             !.init = init, !.parserVal = init,
                             !.cycleNum = GetInitialCycleNum(initialCycleNum, fmf)]
    /\ initialCycleNum' = InitialCycleNumAfter(initialCycleNum, fmf)
    /\ UNCHANGED <<gauge, categoricalMetrics>>
    /\ UNCHANGED nonGenVars

\* CounterMetrics.TaskActivity, the parser adding inc to its value (on the
\* first run countLeft is 1 and the value stays at init)
CounterTaskActivity(inc) ==
    /\ counterMetrics.made
    /\ counterMetrics.runs < MaxRuns
    /\ counterMetrics.runs = 0 => inc = 0
    /\ LET m         == counterMetrics
           hasPrev   == m.currentIndex >= 0
           currIndex == IF hasPrev THEN m.currentIndex ELSE 0
           currVal   == (m.parserVal + inc) % CounterModulus
           valCache  == [m.valCache EXCEPT ![currIndex] = currVal]
           delta     == Uint32Sub(currVal, valCache[1 - currIndex])
           zeroDelta == delta = 0
           emitted   == hasPrev /\ (~zeroDelta \/ m.cycleNum = 0 \/ ~m.zeroDelta)
       IN  counterMetrics' = [m EXCEPT
               !.parserVal = currVal,
               !.valCache = valCache,
               !.zeroDelta = IF hasPrev THEN zeroDelta ELSE @,
               !.currentIndex = 1 - currIndex,
               !.cycleNum = NextCycleNum(@, m.fmf),
               !.runs = @ + 1,
               !.last = [hasPrev |-> hasPrev, emitted |-> emitted,
                         delta |-> IF hasPrev THEN delta ELSE 0,
                         val |-> currVal, prevVal |-> m.last.val]]
    /\ UNCHANGED <<initialCycleNum, gauge, categoricalMetrics>>
    /\ UNCHANGED nonGenVars

CounterNext ==
    \/ \E fmf \in FullMetricsFactors, init \in CounterInits :
          NewCounterMetrics(fmf, init)
    \/ \E inc \in CounterIncs : CounterTaskActivity(inc)

(***************************************************************************)
(* CategoricalMetrics                                                      *)
(***************************************************************************)
\* NewCategoricalMetrics(cfg) with cfg.FullMetricsFactor = fmf
NewCategoricalMetrics(fmf) ==
    /\ ~categoricalMetrics.made
    /\ categoricalMetrics' = [NoCategoricalMetrics EXCEPT
                                 !.made = TRUE, !.fmf = fmf,
                                 !.cycleNum = GetInitialCycleNum(initialCycleNum, fmf)]
    /\ initialCycleNum' = InitialCycleNumAfter(initialCycleNum, fmf)
    /\ UNCHANGED <<gauge, counterMetrics>>
    /\ UNCHANGED nonGenVars

\* a generator that never marks the previous category as inactive
InactiveLine_none(categoricalMetric, ts) == <<>>

\* if m.categoricalMetric != nil: the line of the previous category, with 0
InactiveLine(categoricalMetric, ts) ==
    IF categoricalMetric # NoCategory
    THEN <<[cat |-> categoricalMetric, v |-> 0, ts |-> ts]>>
    ELSE <<>>

\* the latest value emitted by category, after the lines
RECURSIVE LatestAfter(_, _)
LatestAfter(latest, lines) ==
    IF lines = <<>> THEN latest
    ELSE LatestAfter([latest EXCEPT ![Head(lines).cat] = Head(lines).v],
                     Tail(lines))

\* CategoricalMetrics.TaskActivity, the parser having chosen currVal; ts is
\* the timestamp suffix GenBaseMetricsStart has set for the run
CategoricalTaskActivity(currVal) ==
    /\ categoricalMetrics.made
    /\ categoricalMetrics.runs < MaxRuns
    /\ LET m       == categoricalMetrics
           ts      == m.runs + 1
           changed == currVal # m.val
           metric  == IF changed THEN currVal ELSE m.categoricalMetric
           lines   == (IF changed THEN InactiveLine(m.categoricalMetric, ts)
                                  ELSE <<>>)
                      \o (IF m.cycleNum = 0 \/ changed
                          THEN <<[cat |-> metric, v |-> 1, ts |-> ts]>>
                          ELSE <<>>)
       IN  categoricalMetrics' = [m EXCEPT
               !.val = IF changed THEN currVal ELSE @,
               !.categoricalMetric = metric,
               !.cycleNum = NextCycleNum(@, m.fmf),
               !.runs = @ + 1,
               !.lines = lines,
               !.latest = LatestAfter(@, lines),
               !.prevVal = currVal]
    /\ UNCHANGED <<initialCycleNum, gauge, counterMetrics>>
    /\ UNCHANGED nonGenVars

CategoricalNext ==
    \/ \E fmf \in FullMetricsFactors : NewCategoricalMetrics(fmf)
    \/ \E c \in Choices : CategoricalTaskActivity(c)

(***************************************************************************)
(* Properties of the generators                                            *)
(***************************************************************************)
\* cycle# is within its range
CycleNumInRange ==
    gauge.made =>
        /\ gauge.fmf > 0 => gauge.cycleNum \in 0..(gauge.fmf - 1)
        /\ gauge.fmf = 0 => gauge.cycleNum = 0

\* the runs i, i + 1, ... , i + n - 1 that were full cycles
FullCycles(i, n) == {j \in i..(i + n - 1) : gauge.hist[j] = 0}

\* one full cycle in any fmf consecutive runs; every run when fmf is 0
OneFullCyclePerFactor ==
    IF gauge.fmf > 0
    THEN \A i \in 1..(Len(gauge.hist) - gauge.fmf + 1) :
            Cardinality(FullCycles(i, gauge.fmf)) = 1
    ELSE \A j \in 1..Len(gauge.hist) : gauge.hist[j] = 0

\* the step builds the generator
GaugeNewStep == ~gauge.made /\ gauge'.made

\* the step is a run of the generator
GaugeRunStep == gauge'.runs = gauge.runs + 1

\* the cycle# a new generator starts with, and the one that follows a run
CycleNumSteps ==
    /\ GaugeNewStep =>
           /\ gauge'.cycleNum = GetInitialCycleNum(initialCycleNum, gauge'.fmf)
           /\ gauge'.fmf > 0 => gauge'.cycleNum \in 0..(gauge'.fmf - 1)
    /\ GaugeRunStep =>
           gauge'.cycleNum = IF gauge.fmf > 0
                             THEN (gauge.cycleNum + 1) % gauge.fmf ELSE 0

\* C31: with FMF > 0 the cycle# of a generator starts at
\* GetInitialCycleNum(FMF), within 0..FMF-1, and becomes (cycle# + 1) mod FMF
\* after every run, so it stays within 0..FMF-1 and any FMF consecutive runs
\* hold exactly one full cycle (cycle# = 0); with FMF = 0 the cycle# is 0 on
\* every run.
C31_CycleCounter ==
    /\ [](CycleNumInRange /\ OneFullCyclePerFactor)
    /\ [][CycleNumSteps]_vars

\* a generator of the largest factor that started off the full cycle and ran
\* for more than one period
C31_Witness ==
    /\ gauge.made
    /\ gauge.fmf = MaxFMF
    /\ Len(gauge.hist) > gauge.fmf
    /\ gauge.hist[1] # 0

\* the step is a run that emits the value line
GaugeEmits == gauge'.last.emitted

\* C32: on every run after the first the gauge generator emits its value
\* line if and only if cycle# is 0 or the value differs byte-wise from the
\* value of the previous run, whatever the lengths of the two; the first
\* run (currentIndex -1) stores the value in slot 0 and emits it; the
\* current index then alternates between the two slots.
C32_GaugeDelta ==
    [][GaugeRunStep =>
          IF gauge.currentIndex = -1
          THEN /\ GaugeEmits
               /\ gauge'.valCache[0] = gauge'.last.val
               /\ gauge'.currentIndex = 1
          ELSE /\ GaugeEmits <=>
                      gauge.cycleNum = 0 \/ gauge'.last.val # gauge.last.val
               /\ gauge'.currentIndex = 1 - gauge.currentIndex]_vars

\* the step is a run of the counter generator
CounterRunStep == counterMetrics'.runs = counterMetrics.runs + 1

\* the delta of the last run was 0
PrevDeltaZero ==
    /\ counterMetrics.last.hasPrev
    /\ (counterMetrics.last.val - counterMetrics.last.prevVal)
           % CounterModulus = 0

\* C33: on a run with a previous value the counter generator leaves out the
\* delta line exactly when the delta is 0, the delta of the previous run was
\* 0 and cycle# is not 0 (so a zero delta on a full cycle, a zero delta after
\* a non-zero one and every non-zero delta are emitted), and the delta is
\* current - previous modulo 2^32.
C33_NoZeroAfterZero ==
    [][CounterRunStep /\ counterMetrics.currentIndex >= 0 =>
          LET delta == (counterMetrics'.last.val - counterMetrics.last.val)
                          % CounterModulus
          IN  /\ counterMetrics'.last.emitted <=>
                     ~(delta = 0 /\ PrevDeltaZero /\ counterMetrics.cycleNum # 0)
              /\ counterMetrics'.last.delta = delta]_vars

\* a counter that has wrapped around, whose last run left the delta line out
C33_Witness ==
    /\ counterMetrics.made
    /\ counterMetrics.last.hasPrev
    /\ ~counterMetrics.last.emitted
    /\ counterMetrics.last.val < counterMetrics.init

\* the step is a run of the categorical generator
CategoricalRunStep == categoricalMetrics'.runs = categoricalMetrics.runs + 1

\* the lines of a run at timestamp ts that finds the value y after x
TransitionLines(x, y, ts, cycleNum) ==
    IF x # y
    THEN <<[cat |-> x, v |-> 0, ts |-> ts], [cat |-> y, v |-> 1, ts |-> ts]>>
    ELSE IF cycleNum = 0 THEN <<[cat |-> y, v |-> 1, ts |-> ts]>> ELSE <<>>

\* the categories whose latest emitted value is 1
ActiveCategories == {c \in Choices : categoricalMetrics.latest[c] = 1}

ShutdownMaxWaits == {-1, 0, 1}

InternalMetricsIntervals == {-1, 0, 5}

\* the tasks of the registered generators, the internal metrics task, and
\* the nil *Task
GeneratorTasks == 1..NumGenerators

InternalMetricsTask == NumGenerators + 1

NilTask == 0

nonRunVars ==
    <<schedVars, poolVars, compVars, creditVars, wallVars, bufVars, genVars>>

\* Run after the config was loaded, with nothing built
RunInitVarsFor(shutdownMaxWait, interval) ==
    /\ runner = [pc |-> "setup", shutdownMaxWait |-> shutdownMaxWait,
                 interval |-> interval, deferred |-> <<>>, call |-> "",
                 shutdownTimer |-> "nil", taskList |-> <<>>,
                 added |-> {}, nilAdded |-> FALSE,
                 signalled |-> FALSE, panicking |-> FALSE]
    /\ runProc = [worker |-> [w \in Workers |-> "none"],
                  compressor |-> [c \in Compressors |-> "none"],
                  queueLen |-> 0, cancelled |-> FALSE, queueClosed |-> FALSE,
                  poolShutdown |-> FALSE,
                  queuedAfterClose |-> FALSE, sentAfterShutdown |-> FALSE]

RunInitVars == RunInitVarsFor(-1, 5)

AppInitVars == GenInitVars /\ RunInitVars

\* the process is running
RunAlive == runner.pc \notin {"exited", "returned", "crashed"}

\* Run from the shutdown timer to scheduler.Start(): the pools and the
\* scheduler are built and started, and their Shutdown calls are deferred in
\* the order of the code
RunSetup ==
    /\ runner.pc = "setup"
    /\ runner' = [runner EXCEPT
           !.pc = "build",
           !.shutdownTimer = IF runner.shutdownMaxWait > 0 THEN "stopped" ELSE @,
           !.deferred =
               (IF runner.shutdownMaxWait > 0 THEN <<"shutdownTimer.Stop">> ELSE <<>>)
               \o <<"httpEndpointPool.Shutdown", "compressorPool.Shutdown",
                     "scheduler.Shutdown">>]
    /\ runProc' = [runProc EXCEPT
           !.worker = [w \in Workers |-> "select"],
           !.compressor = [c \in Compressors |-> "loop"]]
    /\ UNCHANGED nonRunVars

\* InternalMetricsTaskBuilder(vmiConfig): the task, or nil, nil when the
\* interval is <= 0
InternalMetricsTaskBuilder(interval) ==
    IF interval <= 0 THEN NilTask ELSE InternalMetricsTask

\* Run: the task list from the task builders and the internal metrics
RunBuildTasks ==
    /\ runner.pc = "build"
    /\ runner' = [runner EXCEPT
           !.pc = "add",
           !.taskList = [i \in 1..NumGenerators |-> i]
                        \o <<InternalMetricsTaskBuilder(runner.interval)>>]
    /\ UNCHANGED runProc
    /\ UNCHANGED nonRunVars

\* Run: scheduler.AddNewTask(task) for the next task of the list; AddNewTask
\* writes to the task, which for the nil task is a nil pointer dereference,
\* and the panic runs the deferred calls
RunAddNewTask ==
    /\ runner.pc = "add"
    /\ LET t == Head(runner.taskList)
       IN  IF t = NilTask
           THEN runner' = [runner EXCEPT !.pc = "unwind", !.nilAdded = TRUE,
                                         !.panicking = TRUE]
           ELSE runner' = [runner EXCEPT
                    !.added = @ \cup {t},
                    !.taskList = Tail(@),
                    !.pc = IF Tail(runner.taskList) = <<>> THEN "wait" ELSE "add"]
    /\ UNCHANGED runProc
    /\ UNCHANGED nonRunVars

\* sig := <-sigChan and what follows: Fatalf when shutdown_max_wait is 0,
\* else the watchdog is started if there is a timer, and Run returns
RunSignal ==
    /\ runner.pc = "wait"
    /\ runner' = [runner EXCEPT
           !.signalled = TRUE,
           !.pc = IF runner.shutdownMaxWait = 0 THEN "exited" ELSE "unwind",
           !.shutdownTimer = IF runner.shutdownMaxWait # 0 /\ @ # "nil"
                             THEN "running" ELSE @]
    /\ UNCHANGED runProc
    /\ UNCHANGED nonRunVars

\* a Run that calls its deferred functions first in, first out
NextDeferred_fifo(deferred) == 1

\* deferred functions are called last in, first out
NextDeferred(deferred) == Len(deferred)

\* the next deferred call starts: scheduler.Shutdown cancels the context,
\* compressorPool.Shutdown closes the queue, httpEndpointPool.Shutdown sets
\* shutdown, shutdownTimer.Stop stops the timer
RunDeferredCall ==
    /\ runner.pc = "unwind"
    /\ runner.deferred # <<>>
    /\ LET i == NextDeferred(runner.deferred)
           d == runner.deferred[i]
       IN  /\ runner' = [runner EXCEPT
                  !.pc = "deferred", !.call = d,
                  !.deferred = SubSeq(@, 1, i - 1) \o SubSeq(@, i + 1, Len(@)),
                  !.shutdownTimer = IF d = "shutdownTimer.Stop"
                                    THEN "stopped" ELSE @]
           /\ runProc' = [runProc EXCEPT
                  !.cancelled = @ \/ d = "scheduler.Shutdown",
                  !.queueClosed = @ \/ d = "compressorPool.Shutdown",
                  !.poolShutdown = @ \/ d = "httpEndpointPool.Shutdown"]
    /\ UNCHANGED nonRunVars

\* wg.Wait() of the Shutdown in progress would return
RunWgDone(call) ==
    CASE call = "scheduler.Shutdown" ->
            \A w \in Workers : runProc.worker[w] = "stopped"
      [] call = "compressorPool.Shutdown" ->
            \A c \in Compressors : runProc.compressor[c] = "stopped"
      [] OTHER -> TRUE

\* the deferred call returns; after the last one Run returns, or the panic
\* ends the process
RunDeferredReturn ==
    /\ runner.pc = "deferred"
    /\ RunWgDone(runner.call)
    /\ runner' = [runner EXCEPT
           !.call = "",
           !.pc = IF runner.deferred # <<>> THEN "unwind"
                  ELSE IF runner.panicking THEN "crashed" ELSE "returned"]
    /\ UNCHANGED runProc
    /\ UNCHANGED nonRunVars

\* <-shutdownTimer.C in the watchdog goroutine: Fatalf
RunWatchdog ==
    /\ RunAlive
    /\ runner.shutdownTimer = "running"
    /\ runner' = [runner EXCEPT !.pc = "exited", !.shutdownTimer = "fired"]
    /\ UNCHANGED runProc
    /\ UNCHANGED nonRunVars

\* a scheduler worker receives a task from todoQ and starts its action
RunWorkerTask(w) ==
    /\ RunAlive
    /\ runProc.worker[w] = "select"
    /\ runner.added # {}
    /\ runProc' = [runProc EXCEPT !.worker[w] = "action"]
    /\ UNCHANGED runner
    /\ UNCHANGED nonRunVars

\* the action of the task calls QueueBuf: pool.metricsQueue <- b, which
\* panics on a closed queue
RunQueueBuf(w) ==
    /\ RunAlive
    /\ runProc.worker[w] = "action"
    /\ runProc.queueClosed \/ runProc.queueLen < MetricsQueueSize
    /\ runProc' = [runProc EXCEPT
           !.worker[w] = "select",
           !.queueLen = IF runProc.queueClosed THEN @ ELSE @ + 1,
           !.queuedAfterClose = @ \/ runProc.queueClosed]
    /\ UNCHANGED runner
    /\ UNCHANGED nonRunVars

\* case <-ctx.Done() of a worker
RunWorkerDone(w) ==
    /\ RunAlive
    /\ runProc.worker[w] = "select"
    /\ runProc.cancelled
    /\ runProc' = [runProc EXCEPT !.worker[w] = "stopped"]
    /\ UNCHANGED runner
    /\ UNCHANGED nonRunVars

\* a compressor receives a buffer and ends up with a batch to send
RunCompressorRecv(c) ==
    /\ RunAlive
    /\ runProc.compressor[c] = "loop"
    /\ runProc.queueLen > 0
    /\ runProc' = [runProc EXCEPT !.compressor[c] = "send", !.queueLen = @ - 1]
    /\ UNCHANGED runner
    /\ UNCHANGED nonRunVars

\* the compressor calls SendBuffer of the HTTP endpoint pool
RunSendBuffer(c) ==
    /\ RunAlive
    /\ runProc.compressor[c] = "send"
    /\ runProc' = [runProc EXCEPT
           !.compressor[c] = "loop",
           !.sentAfterShutdown = @ \/ runProc.poolShutdown]
    /\ UNCHANGED runner
    /\ UNCHANGED nonRunVars

\* the compressor finds the queue closed and drained
RunCompressorDone(c) ==
    /\ RunAlive
    /\ runProc.compressor[c] = "loop"
    /\ runProc.queueClosed /\ runProc.queueLen = 0
    /\ runProc' = [runProc EXCEPT !.compressor[c] = "stopped"]
    /\ UNCHANGED runner
    /\ UNCHANGED nonRunVars

RunNext ==
    \/ RunSetup
    \/ RunBuildTasks
    \/ RunAddNewTask
    \/ RunSignal
    \/ RunDeferredCall
    \/ RunDeferredReturn
    \/ RunWatchdog
    \/ \E w \in Workers : RunWorkerTask(w)
    \/ \E w \in Workers : RunQueueBuf(w)
    \/ \E w \in Workers : RunWorkerDone(w)
    \/ \E c \in Compressors : RunCompressorRecv(c)
    \/ \E c \in Compressors : RunSendBuffer(c)
    \/ \E c \in Compressors : RunCompressorDone(c)

(***************************************************************************)
(* Properties of the runner                                                *)
(***************************************************************************)
\* the compressor pool is shut down only after scheduler.Shutdown returned,
\* and the HTTP endpoint pool only after compressorPool.Shutdown returned
ReverseOrder ==
    /\ runProc.queueClosed =>
           /\ runProc.cancelled
           /\ \A w \in Workers : runProc.worker[w] = "stopped"
    /\ runProc.poolShutdown =>
           /\ runProc.queueClosed
           /\ \A c \in Compressors : runProc.compressor[c] = "stopped"

\* a signal with shutdown_max_wait = 0 ends the process with no Shutdown
NoWaitExit ==
    runner.signalled /\ runner.shutdownMaxWait = 0 =>
        /\ runner.pc = "exited"
        /\ ~runProc.cancelled /\ ~runProc.queueClosed /\ ~runProc.poolShutdown

\* C35: on a signal with a non-zero shutdown_max_wait Run shuts down the
\* scheduler, then the compressor pool, then the HTTP endpoint pool, each
\* Shutdown returning before the next starts, so that no task action calls
\* QueueBuf after the queue was closed and no compressor calls SendBuffer
\* after the HTTP pool was shut down; with shutdown_max_wait = 0 the process
\* ends at once with no Shutdown.
C35_ShutdownOrder ==
    /\ ReverseOrder
    /\ ~runProc.queuedAfterClose
    /\ ~runProc.sentAfterShutdown
    /\ NoWaitExit

\* Run has returned after a signal, with the three components shut down
\* and the watchdog stopped
C35_Witness ==
    /\ runner.pc = "returned"
    /\ runner.signalled
    /\ runner.shutdownTimer = "stopped"
    /\ runProc.cancelled /\ runProc.queueClosed /\ runProc.poolShutdown

\* the internal metrics are disabled
InternalMetricsDisabled == runner.interval <= 0

\* C40: with internal_metrics_config.interval <= 0 the task builder makes
\* no task and Run adds the tasks of the generators only; AddNewTask is
\* never called with the nil task.
C40_DisabledInternalMetrics ==
    /\ InternalMetricsDisabled /\ runner.pc \in {"add", "wait"} =>
           \A i \in 1..Len(runner.taskList) :
               runner.taskList[i] \in GeneratorTasks
    /\ ~runner.nilAdded

(***************************************************************************)
(* Specifications                                                          *)
(***************************************************************************)
\* the scheduler as NewScheduler leaves it
SchedInit ==
    /\ SchedInitVars
    /\ BufPoolInitVars(READ_FILE_BUF_POOL_MAX_SIZE_UNBOUND)
    /\ AppInitVars
    /\ PoolInitVars(CHOOSE cfg \in PoolConfigs : cfg.healthyRotateInterval < 0,
                    Senders)
    /\ CompInitVars(0)
    /\ CreditInitVars("rate_controller.go", CHOOSE cfg \in CreditConfigs : cfg.max = 3,
                      [c \in Clients |-> 0])
    /\ ReaderInitVars(0, <<>>)

SchedSpec == SchedInit /\ [][SchedNext]_vars

\* the goroutines are scheduled fairly and wg.Wait() returns when it can
SchedFairSpec ==
    /\ SchedSpec
    /\ WF_vars(DispatcherRecv \/ DispatcherTimer \/ DispatcherSend \/ DispatcherCancel)
    /\ \A w \in Workers :
          WF_vars(WorkerRecv(w) \/ WorkerSend(w) \/ WorkerCancel(w)
                  \/ \E r \in BOOLEAN : WorkerRun(w, r))
    /\ WF_vars(ShutdownReturn)

\* the scheduler on a host whose wall clock may go backwards
SchedSkewNext ==
    \/ \E t \in TaskIds \ {NumTasks} : AddNewTask(t, RawInterval(t))
    \/ Start
    \/ DispatcherRecv
    \/ DispatcherTimer
    \/ DispatcherSend
    \/ \E w \in Workers : WorkerRecv(w)
    \/ \E w \in Workers, r \in BOOLEAN : WorkerRun(w, r)
    \/ \E w \in Workers : WorkerSend(w)
    \/ SchedTick
    \/ ClockBack

SchedSkewSpec == SchedInit /\ [][SchedSkewNext]_vars

\* the scheduler with one task more than the two queues, the dispatcher and
\* the workers can hold together but one, and no Shutdown
LoadTaskIds == 1..(TaskQLen + TodoQLen + NumWorkers + 1)

\* the scheduler as NewScheduler leaves it, the client holding the tasks of
\* LoadTaskIds
SchedLoadInit ==
    /\ state = "Created"
    /\ tasks = <<>>
    /\ taskQ = <<>>
    /\ todoQ = <<>>
    /\ task = [t \in LoadTaskIds |-> NewTask(0)]
    /\ stats = [t \in LoadTaskIds |-> NilStats]
    /\ now = 0
    /\ cancelled = FALSE
    /\ dispatcher = [pc |-> "none", task |-> NoTask, activeTimer |-> FALSE,
                     nextSchedTs |-> 0, timerLeft |-> 0]
    /\ worker = [w \in Workers |-> [pc |-> "none", task |-> NoTask, startTs |-> 0]]
    /\ added = {}
    /\ stopped = {}
    /\ sdWaiting = FALSE
    /\ sdCalls = 0
    /\ clockBack = 0
    /\ BufPoolInitVars(READ_FILE_BUF_POOL_MAX_SIZE_UNBOUND)
    /\ AppInitVars
    /\ PoolInitVars(CHOOSE cfg \in PoolConfigs : cfg.healthyRotateInterval < 0,
                    Senders)
    /\ CompInitVars(0)
    /\ CreditInitVars("rate_controller.go", CHOOSE cfg \in CreditConfigs : cfg.max = 3,
                      [c \in Clients |-> 0])
    /\ ReaderInitVars(0, <<>>)

SchedLoadNext ==
    \/ \E t \in LoadTaskIds : AddNewTask(t, RawInterval(t))
    \/ Start
    \/ DispatcherRecv
    \/ DispatcherTimer
    \/ DispatcherSend
    \/ \E w \in Workers : WorkerRecv(w)
    \/ \E w \in Workers, r \in BOOLEAN : WorkerRun(w, r)
    \/ \E w \in Workers : WorkerSend(w)
    \/ SchedTick

SchedLoadSpec == SchedLoadInit /\ [][SchedLoadNext]_vars

\* the scheduler with all but the last task, of any interval
IntervalNext ==
    \/ \E t \in TaskIds \ {NumTasks}, x \in RawIntervals : AddNewTask(t, x)
    \/ Start
    \/ DispatcherRecv
    \/ DispatcherTimer
    \/ DispatcherSend
    \/ \E w \in Workers : WorkerRecv(w)
    \/ \E w \in Workers, r \in BOOLEAN : WorkerRun(w, r)
    \/ \E w \in Workers : WorkerSend(w)
    \/ SchedTick

IntervalSpec == SchedInit /\ [][IntervalNext]_vars

\* the pool as NewHttpEndpointPool leaves it, for any configuration
\* one caller of SendBuffer, the clock running
PoolInit ==
    /\ SchedInitVars
    /\ BufPoolInitVars(READ_FILE_BUF_POOL_MAX_SIZE_UNBOUND)
    /\ AppInitVars
    /\ \E cfg \in PoolConfigs : PoolInitVars(cfg, {1})
    /\ CompInitVars(0)
    /\ CreditInitVars("rate_controller.go", CHOOSE cfg \in CreditConfigs : cfg.max = 3,
                      [c \in Clients |-> 0])
    /\ ReaderInitVars(0, <<>>)

PoolSpec == PoolInit /\ [][PoolNext]_vars

\* a caller of SendBuffer whose timeout is two poll intervals
LongTimeouts == {2 * HTTP_ENDPOINT_POOL_HEALTHY_POLL_INTERVAL}

PoolWaitNext ==
    \/ \E s \in Senders, b \in SendBufs, t \in LongTimeouts : SendBuffer(s, b, t)
    \/ \E s \in Senders : SendGetHealthy(s)
    \/ \E s \in Senders : SendWake(s)
    \/ \E s \in Senders, o \in Outcomes, k \in 0..MaxBufLen : SendDo(s, o, k)
    \/ \E e \in Endpoints, o \in Outcomes : HealthCheck(e, o)
    \/ \E e \in Endpoints : HealthCheckCancel(e)
    \/ PoolShutdown
    \/ PoolShutdownReturn
    \/ PoolTick

PoolWaitSpec == PoolInit /\ [][PoolWaitNext]_vars

\* concurrent callers of SendBuffer, within one tick of the clock
PoolConcInit ==
    /\ SchedInitVars
    /\ BufPoolInitVars(READ_FILE_BUF_POOL_MAX_SIZE_UNBOUND)
    /\ AppInitVars
    /\ \E cfg \in PoolConfigs : PoolInitVars(cfg, Senders)
    /\ CompInitVars(0)
    /\ CreditInitVars("rate_controller.go", CHOOSE cfg \in CreditConfigs : cfg.max = 3,
                      [c \in Clients |-> 0])
    /\ ReaderInitVars(0, <<>>)

PoolConcNext ==
    \/ \E s \in Senders, b \in SendBufs : SendBuffer(s, b, 0)
    \/ \E s \in Senders : SendGetHealthy(s)
    \/ \E s \in Senders, o \in Outcomes, k \in 0..MaxBufLen : SendDo(s, o, k)
    \/ \E e \in Endpoints, o \in Outcomes : HealthCheck(e, o)
    \/ \E e \in Endpoints : HealthCheckCancel(e)
    \/ PoolShutdown
    \/ PoolShutdownReturn

PoolConcSpec == PoolConcInit /\ [][PoolConcNext]_vars

CompInit ==
    /\ SchedInitVars
    /\ BufPoolInitVars(READ_FILE_BUF_POOL_MAX_SIZE_UNBOUND)
    /\ AppInitVars
    /\ PoolInitVars(CHOOSE cfg \in PoolConfigs : cfg.healthyRotateInterval < 0,
                    Senders)
    /\ \E fi \in FlushIntervals : CompInitVars(fi)
    /\ CreditInitVars("rate_controller.go", CHOOSE cfg \in CreditConfigs : cfg.max = 3,
                      [c \in Clients |-> 0])
    /\ ReaderInitVars(0, <<>>)

CompSpec == CompInit /\ [][CompNext]_vars

\* the compressor pool for every batch target size, with gzip write errors
CompCfgInit ==
    /\ SchedInitVars
    /\ BufPoolInitVars(READ_FILE_BUF_POOL_MAX_SIZE_UNBOUND)
    /\ AppInitVars
    /\ PoolInitVars(CHOOSE cfg \in PoolConfigs : cfg.healthyRotateInterval < 0,
                    Senders)
    /\ \E fi \in FlushIntervals, ts \in BatchTargetSizes : CompInitVarsFor(fi, ts)
    /\ CreditInitVars("rate_controller.go", CHOOSE cfg \in CreditConfigs : cfg.max = 3,
                      [c \in Clients |-> 0])
    /\ ReaderInitVars(0, <<>>)

CompCfgNext ==
    \/ QueueBuf
    \/ CompStart
    \/ CompShutdown
    \/ CompShutdownReturn
    \/ \E c \in Compressors, ratio \in GzRatios, ok \in BOOLEAN :
          CompRecv(c, ratio, ok)
    \/ \E c \in Compressors, ratio \in GzRatios, ok \in BOOLEAN :
          CompRecvWriteError(c, ratio, ok)
    \/ \E c \in Compressors, ratio \in GzRatios, ok \in BOOLEAN :
          CompRecvClosed(c, ratio, ok)
    \/ \E c \in Compressors : CompTimerExpire(c)
    \/ \E c \in Compressors, ratio \in GzRatios, ok \in BOOLEAN :
          CompFlush(c, ratio, ok)

CompCfgSpec == CompCfgInit /\ [][CompCfgNext]_vars

\* the compressor goroutines and the Shutdown caller keep running
CompFairSpec ==
    /\ CompSpec
    /\ \A c \in Compressors :
          WF_vars(\E ratio \in GzRatios, ok \in BOOLEAN :
                     \/ CompRecv(c, ratio, ok)
                     \/ CompRecvClosed(c, ratio, ok)
                     \/ CompFlush(c, ratio, ok))
    /\ WF_vars(CompShutdownReturn)

\* the controller as NewCredit or NewCreditFromSpec leaves it, any requestors
CreditInit ==
    /\ SchedInitVars
    /\ BufPoolInitVars(READ_FILE_BUF_POOL_MAX_SIZE_UNBOUND)
    /\ AppInitVars
    /\ PoolInitVars(CHOOSE cfg \in PoolConfigs : cfg.healthyRotateInterval < 0,
                    Senders)
    /\ CompInitVars(0)
    /\ \E src \in CreditSources, cfg \in CreditConfigs :
          CreditInitVars(src, cfg, [c \in Clients |-> 0])
    /\ ReaderInitVars(0, <<>>)

CreditSpec == CreditInit /\ [][CreditNext]_vars

\* a capped controller and the requestors of testCredit, each with a target
CreditUserInit ==
    /\ SchedInitVars
    /\ BufPoolInitVars(READ_FILE_BUF_POOL_MAX_SIZE_UNBOUND)
    /\ AppInitVars
    /\ PoolInitVars(CHOOSE cfg \in PoolConfigs : cfg.healthyRotateInterval < 0,
                    Senders)
    /\ CompInitVars(0)
    /\ \E src \in CreditSources, cfg \in CreditConfigs :
          /\ cfg.max # CREDIT_NO_LIMIT
          /\ CreditInitVars(src, cfg, targetCredit)
    /\ ReaderInitVars(0, <<>>)

\* the replenish goroutine and the requestors keep running
CreditFairSpec ==
    /\ CreditUserInit
    /\ [][CreditUserNext]_vars
    /\ WF_vars(Replenish(FALSE))
    /\ WF_vars(ReplenishSelect)
    /\ \A c \in Clients :
          /\ WF_vars(GetCreditReturn(c))
          /\ WF_vars(\E d \in Desireds, m \in 0..MaxDesired :
                        CreditUserCall(c, d, m))

\* a CreditReader on a controller of either kind
ReaderInit ==
    /\ SchedInitVars
    /\ BufPoolInitVars(READ_FILE_BUF_POOL_MAX_SIZE_UNBOUND)
    /\ AppInitVars
    /\ PoolInitVars(CHOOSE cfg \in PoolConfigs : cfg.healthyRotateInterval < 0,
                    Senders)
    /\ CompInitVars(0)
    /\ \E src \in CreditSources, cfg \in CreditConfigs :
          CreditInitVars(src, cfg, [c \in Clients |-> 0])
    /\ \E m \in ReaderMins, b \in ReaderBufs : ReaderInitVars(m, b)

ReaderSpec == ReaderInit /\ [][ReaderNext]_vars

\* the pool as NewBufPool leaves it, with or without a cap
BufPoolInit ==
    /\ SchedInitVars
    /\ \E maxPoolSize \in MaxPoolSizes : BufPoolInitVars(maxPoolSize)
    /\ AppInitVars
    /\ PoolInitVars(CHOOSE cfg \in PoolConfigs : cfg.healthyRotateInterval < 0,
                    Senders)
    /\ CompInitVars(0)
    /\ CreditInitVars("rate_controller.go", CHOOSE cfg \in CreditConfigs : cfg.max = 3,
                      [c \in Clients |-> 0])
    /\ ReaderInitVars(0, <<>>)

BufPoolSpec == BufPoolInit /\ [][BufPoolNext]_vars

\* a metrics generator created after any number of others, and its runs
GaugeInit ==
    /\ SchedInitVars
    /\ BufPoolInitVars(READ_FILE_BUF_POOL_MAX_SIZE_UNBOUND)
    /\ PoolInitVars(CHOOSE cfg \in PoolConfigs : cfg.healthyRotateInterval < 0,
                    Senders)
    /\ CompInitVars(0)
    /\ CreditInitVars("rate_controller.go", CHOOSE cfg \in CreditConfigs : cfg.max = 3,
                      [c \in Clients |-> 0])
    /\ ReaderInitVars(0, <<>>)
    /\ \E n \in InitialCycleNums : GenInitVarsFrom(n)
    /\ RunInitVars

GaugeSpec == GaugeInit /\ [][GaugeNext]_vars

CounterSpec == GaugeInit /\ [][CounterNext]_vars

CategoricalSpec == GaugeInit /\ [][CategoricalNext]_vars

\* Run for any shutdown_max_wait and internal metrics interval
RunInit ==
    /\ SchedInitVars
    /\ BufPoolInitVars(READ_FILE_BUF_POOL_MAX_SIZE_UNBOUND)
    /\ PoolInitVars(CHOOSE cfg \in PoolConfigs : cfg.healthyRotateInterval < 0,
                    Senders)
    /\ CompInitVars(0)
    /\ CreditInitVars("rate_controller.go", CHOOSE cfg \in CreditConfigs : cfg.max = 3,
                      [c \in Clients |-> 0])
    /\ ReaderInitVars(0, <<>>)
    /\ GenInitVars
    /\ \E w \in ShutdownMaxWaits, i \in InternalMetricsIntervals :
          RunInitVarsFor(w, i)

RunSpec == RunInit /\ [][RunNext]_vars

====
